---- MODULE Spec2Model ----
(***************************************************************************)
(* Model of the mini_engine in-memory search core: SimpleTokenizer,        *)
(* MemoryInvertedIndex, MemoryTrie and MemorySearchEngine.                 *)
(*                                                                         *)
(* Strings (document ids, texts, terms) are sequences of UTF-16 code       *)
(* units, as String.charCodeAt sees them.  JavaScript's `<` on strings is  *)
(* the lexicographic order of those sequences (StrLess).                   *)
(***************************************************************************)
EXTENDS Integers, Sequences, FiniteSets, TLC

\* ------------------------------------------------------------------ bounds
MaxDocs == 2      \* number of distinct document ids the environment uses
MaxBatch == 2     \* longest argument list of one upsertDocuments call
MaxWeight == 3    \* upserts stop once a trie weight would exceed this
MaxPagerDocs == 3 \* documents of the corpus a pager walks through
MaxLimit == 2     \* largest page size a pager asks for
MaxSearches == 4  \* searches one pager makes at most
MaxItems == 4     \* longest input of one topK call
MaxInserts == 2   \* insert calls per term between two removes of it
MaxComplete == 3  \* largest limit complete is asked with
MaxRankDocs == 3  \* documents the two indexes of the ranker calls hold at most
MaxCandidateLimit == 2  \* largest candidateLimit rank is called with
MaxTextLen == 4   \* longest text the tokenizer is called with directly
MaxHttpBatch == 2 \* longest documents array of one POST /documents

\* ------------------------------------------------------------------ limits
MaxDocuments == 1000    \* items of one POST /documents
MaxIdLength == 256      \* characters of a document id
MaxTextLength == 200000 \* characters of a document text
MaxQueryLength == 4096  \* characters of a query
MaxTopK == 100          \* largest topK of POST /search

\* ------------------------------------------------------------------ inputs
\* "b", "a", "ab", "c", "aa": ids in an order that is not the sorted one
DocIdTable == << <<98>>, <<97>>, <<97, 98>>, <<99>>, <<97, 97>> >>

DocIds == { DocIdTable[i] : i \in 1..MaxDocs }

\* "", "yy", "YY the-yy": the last holds the stop word "the"
Texts == { <<>>, <<121, 121>>, <<89, 89, 32, 116, 104, 101, 45, 121, 121>> }

\* "", "yy", "y", "th", "the", "yy THE": "y" and "th" are no term of a text
\* but begin one
Queries == { <<>>, <<121, 121>>, <<121>>, <<116, 104>>, <<116, 104, 101>>,
             <<121, 121, 32, 84, 72, 69>> }

DocumentInputs == [id : DocIds, text : Texts]

\* ------------------------------------------------------------------ strings
RECURSIVE StrLess(_, _)
StrLess(a, b) ==
    IF b = <<>> THEN FALSE
    ELSE IF a = <<>> THEN TRUE
    ELSE IF a[1] # b[1] THEN a[1] < b[1]
    ELSE StrLess(Tail(a), Tail(b))

\* String.prototype.toLowerCase on the code units an alphanumeric run holds
toLowerCase(s) ==
    [i \in 1..Len(s) |-> IF s[i] >= 65 /\ s[i] <= 90 THEN s[i] + 32 ELSE s[i]]

\* ------------------------------------------------------------------ tokenizer
DEFAULT_STOP_WORDS == {
    <<97>>, <<97,110>>, <<97,110,100>>, <<97,114,101>>, <<97,115>>,
    <<97,116>>, <<98,101>>, <<98,117,116>>, <<98,121>>, <<102,111,114>>,
    <<105,102>>, <<105,110>>, <<105,110,116,111>>, <<105,115>>, <<105,116>>,
    <<110,111>>, <<110,111,116>>, <<111,102>>, <<111,110>>, <<111,114>>,
    <<115,117,99,104>>, <<116,104,97,116>>, <<116,104,101>>,
    <<116,104,101,105,114>>, <<116,104,101,110>>, <<116,104,101,114,101>>,
    <<116,104,101,115,101>>, <<116,104,101,121>>, <<116,104,105,115>>,
    <<116,111>>, <<119,97,115>>, <<119,105,108,108>>, <<119,105,116,104>> }

isAlphaNum(code) ==
    \/ (code >= 48 /\ code <= 57)
    \/ (code >= 65 /\ code <= 90)
    \/ (code >= 97 /\ code <= 122)

\* `while (i < n && !isAlphaNum(text.charCodeAt(i))) i++`, i counted from 1
RECURSIVE skipSeparators(_, _)
skipSeparators(text, i) ==
    IF i <= Len(text) /\ ~isAlphaNum(text[i]) THEN skipSeparators(text, i + 1) ELSE i

\* `while (i < n && isAlphaNum(text.charCodeAt(i))) i++`, i counted from 1
RECURSIVE skipAlphaNum(_, _)
skipAlphaNum(text, i) ==
    IF i <= Len(text) /\ isAlphaNum(text[i]) THEN skipAlphaNum(text, i + 1) ELSE i

\* tokenizeFrom with a bug: `position++` only happens for a yielded token
RECURSIVE tokenizeFrom_CountsYielded(_, _, _, _, _)
tokenizeFrom_CountsYielded(text, i, position, normalizeCase, removeStopWords) ==
    LET start == skipSeparators(text, i)
    IN  IF start > Len(text) THEN <<>>
        ELSE
          LET end  == skipAlphaNum(text, start)
              raw  == SubSeq(text, start, end - 1)
              term == IF normalizeCase THEN toLowerCase(raw) ELSE raw
              tok  == [term |-> term, position |-> position,
                       startOffset |-> start - 1, endOffset |-> end - 1]
          IN  IF ~removeStopWords \/ term \notin DEFAULT_STOP_WORDS
              THEN <<tok>> \o tokenizeFrom_CountsYielded(text, end, position + 1,
                                                         normalizeCase, removeStopWords)
              ELSE tokenizeFrom_CountsYielded(text, end, position,
                                              normalizeCase, removeStopWords)

\* tokenizeFrom with a bug: the term is never lowercased
RECURSIVE tokenizeFrom_NeverLowercases(_, _, _, _, _)
tokenizeFrom_NeverLowercases(text, i, position, normalizeCase, removeStopWords) ==
    LET start == skipSeparators(text, i)
    IN  IF start > Len(text) THEN <<>>
        ELSE
          LET end  == skipAlphaNum(text, start)
              term == SubSeq(text, start, end - 1)
              tok  == [term |-> term, position |-> position,
                       startOffset |-> start - 1, endOffset |-> end - 1]
              rest == tokenizeFrom_NeverLowercases(text, end, position + 1,
                                                   normalizeCase, removeStopWords)
          IN  IF ~removeStopWords \/ term \notin DEFAULT_STOP_WORDS
              THEN <<tok>> \o rest
              ELSE rest

\* The generator's loop from character index i (1-based) and token index
\* `position`; the tokens it yields, in order.
RECURSIVE tokenizeFrom(_, _, _, _, _)
tokenizeFrom(text, i, position, normalizeCase, removeStopWords) ==
    LET start == skipSeparators(text, i)
    IN  IF start > Len(text) THEN <<>>
        ELSE
          LET end  == skipAlphaNum(text, start)
              raw  == SubSeq(text, start, end - 1)
              term == IF normalizeCase THEN toLowerCase(raw) ELSE raw
              tok  == [term |-> term, position |-> position,
                       startOffset |-> start - 1, endOffset |-> end - 1]
              rest == tokenizeFrom(text, end, position + 1,
                                   normalizeCase, removeStopWords)
          IN  IF ~removeStopWords \/ term \notin DEFAULT_STOP_WORDS
              THEN <<tok>> \o rest
              ELSE rest

\* tokenize with a bug: stop words are never removed
tokenize_KeepsStopWords(text, normalizeCase, removeStopWords) ==
    tokenizeFrom(text, 1, 0, normalizeCase, FALSE)

tokenize(text, normalizeCase, removeStopWords) ==
    tokenizeFrom(text, 1, 0, normalizeCase, removeStopWords)

\* ------------------------------------------------------------------ index
\* An index value is [termToDocMap, docs].  termToDocMap maps a term to its
\* docMap, a JavaScript Map kept as the sequence of its entries in insertion
\* order; docs is the Set of document ids.
EmptyIndex == [termToDocMap |-> <<>>, docs |-> {}]

docMapHas(docMap, docId) == \E i \in 1..Len(docMap) : docMap[i].docId = docId

\* docMapSet with a bug: the entry is pushed even when the key exists
docMapSet_AlwaysAppends(docMap, docId, entry) ==
    Append(docMap, [docId |-> docId, tf |-> entry.tf, positions |-> entry.positions])

\* Map.prototype.set: an existing key keeps its place, a new key goes last
docMapSet(docMap, docId, entry) ==
    LET e == [docId |-> docId, tf |-> entry.tf, positions |-> entry.positions]
    IN  IF docMapHas(docMap, docId)
        THEN [i \in 1..Len(docMap) |->
                 IF docMap[i].docId = docId THEN e ELSE docMap[i]]
        ELSE Append(docMap, e)

\* Map.prototype.delete
RECURSIVE docMapDelete(_, _)
docMapDelete(docMap, docId) ==
    IF docMap = <<>> THEN <<>>
    ELSE IF Head(docMap).docId = docId THEN docMapDelete(Tail(docMap), docId)
    ELSE <<Head(docMap)>> \o docMapDelete(Tail(docMap), docId)

\* termFrequencies and positionsByTerm are functions over the same terms
addDocument(index, docId, termFrequencies, positionsByTerm) ==
    LET old  == index.termToDocMap
        keys == DOMAIN old \cup DOMAIN termFrequencies
    IN  [termToDocMap |->
            [t \in keys |->
                IF t \in DOMAIN termFrequencies
                THEN docMapSet(IF t \in DOMAIN old THEN old[t] ELSE <<>>,
                               docId,
                               [tf |-> termFrequencies[t],
                                positions |-> positionsByTerm[t]])
                ELSE old[t]],
         docs |-> index.docs \cup {docId}]

\* indexRemoveDocument with a bug: `this.docs.delete(docId)` is missing
indexRemoveDocument_KeepsDocSet(index, docId) ==
    IF docId \notin index.docs THEN index
    ELSE [termToDocMap |->
             [t \in DOMAIN index.termToDocMap |->
                 docMapDelete(index.termToDocMap[t], docId)],
          docs |-> index.docs]

\* indexRemoveDocument with a bug: the loop over termToDocMap is missing
indexRemoveDocument_KeepsPostings(index, docId) ==
    IF docId \notin index.docs THEN index
    ELSE [termToDocMap |-> index.termToDocMap, docs |-> index.docs \ {docId}]

indexRemoveDocument(index, docId) ==
    IF docId \notin index.docs THEN index
    ELSE [termToDocMap |->
             [t \in DOMAIN index.termToDocMap |->
                 docMapDelete(index.termToDocMap[t], docId)],
          docs |-> index.docs \ {docId}]

\* sortPostings with a bug: the postings are left in Map insertion order
sortPostings_Unsorted(postings) == postings

\* Array.prototype.sort with the docId comparator, as an insertion sort
RECURSIVE insertPosting(_, _)
insertPosting(sorted, p) ==
    IF sorted = <<>> THEN <<p>>
    ELSE IF StrLess(p.docId, Head(sorted).docId) THEN <<p>> \o sorted
    ELSE <<Head(sorted)>> \o insertPosting(Tail(sorted), p)

RECURSIVE sortPostings(_)
sortPostings(postings) ==
    IF postings = <<>> THEN <<>>
    ELSE insertPosting(sortPostings(SubSeq(postings, 1, Len(postings) - 1)),
                       postings[Len(postings)])

\* `undefined` is the record Absent
Absent == [present |-> FALSE]

getPostings(index, term) ==
    IF term \notin DOMAIN index.termToDocMap THEN Absent
    ELSE LET postings == sortPostings(index.termToDocMap[term])
         IN  [present |-> TRUE, term |-> term,
              df |-> Len(postings), postings |-> postings]

hasTerm(index, term) ==
    /\ term \in DOMAIN index.termToDocMap
    /\ Len(index.termToDocMap[term]) > 0

getStats(index) == [docCount |-> Cardinality(index.docs)]

\* ------------------------------------------------------------------ trie
\* A trie is the function from the path of every node (the characters from
\* the root) to the node's fields; the root is the empty path.  The field
\* children holds the keys of the node's Map `children` in insertion order.
makeNode == [children |-> <<>>, terminal |-> FALSE, weight |-> 0]

EmptyTrie == [p \in {<<>>} |-> makeNode]

Prefixes(term) == { SubSeq(term, 1, k) : k \in 0..Len(term) }

trieInsert(trie, term, trackFrequency) ==
    [p \in DOMAIN trie \cup Prefixes(term) |->
        LET node == IF p \in DOMAIN trie THEN trie[p] ELSE makeNode
        IN  IF p = term
            THEN [children |-> node.children,
                  terminal |-> TRUE,
                  weight |-> IF trackFrequency THEN node.weight + 1
                             ELSE node.weight]
            ELSE IF /\ p \in Prefixes(term)
                    /\ \A i \in 1..Len(node.children) :
                           node.children[i] # term[Len(p) + 1]
                 THEN [node EXCEPT !.children = Append(@, term[Len(p) + 1])]
                 ELSE node]

\* trieRemove with a bug: the terms that extend the term are unset as well
trieRemove_UnsetsExtensions(trie, term) ==
    IF term \notin DOMAIN trie THEN trie
    ELSE [p \in DOMAIN trie |->
             IF Len(p) >= Len(term) /\ SubSeq(p, 1, Len(term)) = term
             THEN [trie[p] EXCEPT !.terminal = FALSE, !.weight = 0]
             ELSE trie[p]]

\* trieRemove with a bug: the weight survives the remove
trieRemove_KeepsWeight(trie, term) ==
    IF term \notin DOMAIN trie THEN trie
    ELSE [trie EXCEPT ![term].terminal = FALSE]

trieRemove(trie, term) ==
    IF term \notin DOMAIN trie THEN trie
    ELSE [trie EXCEPT ![term].terminal = FALSE, ![term].weight = 0]

trieHas(trie, term) == term \in DOMAIN trie /\ trie[term].terminal

\* Array.prototype.slice(start, end) for start >= 0; a negative end counts
\* from the end of the array
slice(arr, start, end) ==
    LET n  == Len(arr)
        hi == IF end < 0 THEN (IF n + end < 0 THEN 0 ELSE n + end)
              ELSE IF end > n THEN n ELSE end
    IN  IF start >= hi THEN <<>> ELSE SubSeq(arr, start + 1, hi)

\* Array.from(node.children.keys()).sort(): the child characters of the node
\* at `path`, ascending by code unit
RECURSIVE sortedChars(_)
sortedChars(chars) ==
    IF chars = {} THEN <<>>
    ELSE LET c == CHOOSE x \in chars : \A y \in chars : x <= y
         IN  <<c>> \o sortedChars(chars \ {c})

\* childKeys with a bug: the keys are left in insertion order
childKeys_Unsorted(trie, path) == trie[path].children

childKeys(trie, path) ==
    sortedChars({ trie[path].children[i] : i \in 1..Len(trie[path].children) })

\* reverse with a bug: the keys stay in ascending order
reverse_Ascending(arr) == arr

reverse(arr) == [i \in 1..Len(arr) |-> arr[Len(arr) + 1 - i]]

\* The `while (stack.length && out.length < limit)` loop of complete: the
\* stack holds node paths, its top last
RECURSIVE completeLoop(_, _, _, _)
completeLoop(trie, stack, out, limit) ==
    IF stack = <<>> \/ Len(out) >= limit THEN out
    ELSE LET path == stack[Len(stack)]
             node == trie[path]
             rest == SubSeq(stack, 1, Len(stack) - 1)
             keys == reverse(childKeys(trie, path))
             out2 == IF node.terminal
                     THEN Append(out, [term |-> path, weight |-> node.weight])
                     ELSE out
         IN  completeLoop(trie,
                          rest \o [i \in 1..Len(keys) |-> Append(path, keys[i])],
                          out2, limit)

\* completionBefore with a bug: the weights are not looked at
completionBefore_ByTermOnly(a, b) == StrLess(a.term, b.term)

\* comparator of complete's final sort; a missing weight counts as 0
completionBefore(a, b) ==
    IF a.weight # b.weight THEN a.weight > b.weight ELSE StrLess(a.term, b.term)

RECURSIVE insertCompletion(_, _)
insertCompletion(sorted, c) ==
    IF sorted = <<>> THEN <<c>>
    ELSE IF completionBefore(c, Head(sorted)) THEN <<c>> \o sorted
    ELSE <<Head(sorted)>> \o insertCompletion(Tail(sorted), c)

RECURSIVE sortCompletions(_)
sortCompletions(out) ==
    IF out = <<>> THEN <<>>
    ELSE insertCompletion(sortCompletions(SubSeq(out, 1, Len(out) - 1)),
                          out[Len(out)])

\* A completion is [term, weight]; weight 0 stands for the absent weight
\* (`node.weight || undefined`), which the sort reads as 0.
trieComplete(trie, prefix, limit) ==
    IF prefix \notin DOMAIN trie THEN <<>>
    ELSE slice(sortCompletions(completeLoop(trie, <<prefix>>, <<>>, limit)), 0, limit)

\* ------------------------------------------------------------------ ranker
\* Scores are kept exactly: 1000 * ln(k) rounded for k = 1..8 (the table
\* respects ln 4 = 2 ln 2, ln 6 = ln 2 + ln 3, ln 8 = 3 ln 2), an un-normalized
\* score is an integer number of thousandths, and a hit's score is the pair
\* [num, len] standing for num / sqrt(len).
LnMilli == <<0, 693, 1099, 1386, 1609, 1792, 1946, 2079>>

\* Math.log((docCount + smoothing) / (df + smoothing)) + 1, in thousandths
idf(docCount, df, smoothing) ==
    LnMilli[docCount + smoothing] - LnMilli[df + smoothing] + 1000

\* the sign of a.score - b.score for scores num / sqrt(len) with num >= 0
scoreSign(a, b) ==
    LET l == a.num * a.num * b.len
        r == b.num * b.num * a.len
    IN  IF l > r THEN 1 ELSE IF l < r THEN -1 ELSE 0

\* hitComparator with a bug: equal scores put the larger docId first
hitComparator_TiesDescending(a, b) ==
    IF scoreSign(b.score, a.score) # 0 THEN scoreSign(b.score, a.score)
    ELSE IF StrLess(a.docId, b.docId) THEN 1 ELSE -1

\* (a, b) => b.score - a.score || (a.docId < b.docId ? -1 : 1)
hitComparator(a, b) ==
    IF scoreSign(b.score, a.score) # 0 THEN scoreSign(b.score, a.score)
    ELSE IF StrLess(a.docId, b.docId) THEN -1 ELSE 1

\* the `for (const t of queryTerms)` loop gathering termLists
RECURSIVE gatherTermLists(_, _, _)
gatherTermLists(queryTerms, ix, docCount) ==
    IF queryTerms = <<>> THEN <<>>
    ELSE LET t    == Head(queryTerms)
             pl   == getPostings(ix, t)
             rest == gatherTermLists(Tail(queryTerms), ix, docCount)
         IN  IF ~pl.present \/ pl.df = 0 THEN rest
             ELSE <<[term |-> t, idf |-> idf(docCount, pl.df, 1),
                     postings |-> pl.postings]>> \o rest

\* termLists.sort((a, b) => a.postings.length - b.postings.length), stable
RECURSIVE insertTermList(_, _)
insertTermList(sorted, tl) ==
    IF sorted = <<>> THEN <<tl>>
    ELSE IF Len(tl.postings) < Len(sorted[Len(sorted)].postings)
         THEN Append(insertTermList(SubSeq(sorted, 1, Len(sorted) - 1), tl),
                     sorted[Len(sorted)])
         ELSE Append(sorted, tl)

RECURSIVE sortTermLists(_)
sortTermLists(termLists) ==
    IF termLists = <<>> THEN <<>>
    ELSE insertTermList(sortTermLists(SubSeq(termLists, 1, Len(termLists) - 1)),
                        termLists[Len(termLists)])

\* addScore with a bug: the previous score is overwritten
addScore_Overwrites(scores, docId, amount) ==
    IF \E i \in 1..Len(scores) : scores[i].docId = docId
    THEN [i \in 1..Len(scores) |->
             IF scores[i].docId = docId
             THEN [docId |-> docId, score |-> amount]
             ELSE scores[i]]
    ELSE Append(scores, [docId |-> docId, score |-> amount])

\* scores.set(p.docId, prev + p.tf * tl.idf) on the Map `scores`, kept as
\* the sequence of its entries [docId, score] in insertion order
addScore(scores, docId, amount) ==
    IF \E i \in 1..Len(scores) : scores[i].docId = docId
    THEN [i \in 1..Len(scores) |->
             IF scores[i].docId = docId
             THEN [docId |-> docId, score |-> scores[i].score + amount]
             ELSE scores[i]]
    ELSE Append(scores, [docId |-> docId, score |-> amount])

RECURSIVE scorePostings(_, _, _)
scorePostings(scores, postings, termIdf) ==
    IF postings = <<>> THEN scores
    ELSE scorePostings(addScore(scores, Head(postings).docId,
                                Head(postings).tf * termIdf),
                       Tail(postings), termIdf)

RECURSIVE unionScore(_, _)
unionScore(scores, termLists) ==
    IF termLists = <<>> THEN scores
    ELSE unionScore(scorePostings(scores, Head(termLists).postings,
                                  Head(termLists).idf),
                    Tail(termLists))

\* insertCandidate with a bug: the sort is by score ascending
RECURSIVE insertCandidate_Ascending(_, _)
insertCandidate_Ascending(sorted, c) ==
    IF sorted = <<>> THEN <<c>>
    ELSE IF c.score < sorted[Len(sorted)].score
         THEN Append(insertCandidate_Ascending(SubSeq(sorted, 1, Len(sorted) - 1), c),
                     sorted[Len(sorted)])
         ELSE Append(sorted, c)

\* candidates.sort((a, b) => b[1] - a[1]), stable
RECURSIVE insertCandidate(_, _)
insertCandidate(sorted, c) ==
    IF sorted = <<>> THEN <<c>>
    ELSE IF c.score > sorted[Len(sorted)].score
         THEN Append(insertCandidate(SubSeq(sorted, 1, Len(sorted) - 1), c),
                     sorted[Len(sorted)])
         ELSE Append(sorted, c)

RECURSIVE sortCandidates(_)
sortCandidates(candidates) ==
    IF candidates = <<>> THEN <<>>
    ELSE insertCandidate(sortCandidates(SubSeq(candidates, 1, Len(candidates) - 1)),
                         candidates[Len(candidates)])

\* hits.sort(hitComparator)
RECURSIVE insertHit(_, _)
insertHit(sorted, h) ==
    IF sorted = <<>> THEN <<h>>
    ELSE IF hitComparator(h, sorted[Len(sorted)]) < 0
         THEN Append(insertHit(SubSeq(sorted, 1, Len(sorted) - 1), h),
                     sorted[Len(sorted)])
         ELSE Append(sorted, h)

RECURSIVE sortHits(_)
sortHits(hits) ==
    IF hits = <<>> THEN <<>>
    ELSE insertHit(sortHits(SubSeq(hits, 1, Len(hits) - 1)), hits[Len(hits)])

\* TfIdfRanker.rank; ctx is [index, stats, docLengths]; candidateLimit 0
\* stands for the absent option (both are falsy in `candidateLimit && ...`)
rank(queryTerms, ctx, candidateLimit) ==
    LET docCount == ctx.stats.docCount
    IN  IF docCount = 0 \/ queryTerms = <<>> THEN <<>>
        ELSE
          LET termLists == sortTermLists(gatherTermLists(queryTerms, ctx.index, docCount))
              scores    == unionScore(<<>>, termLists)
              candidates ==
                  IF candidateLimit # 0 /\ Len(scores) > candidateLimit
                  THEN slice(sortCandidates(scores), 0, candidateLimit)
                  ELSE scores
              hits == [i \in 1..Len(candidates) |->
                          LET d == candidates[i].docId
                              len == IF d \in DOMAIN ctx.docLengths
                                     THEN ctx.docLengths[d] ELSE 0
                          IN  [docId |-> d,
                               score |-> [num |-> candidates[i].score,
                                          len |-> IF len > 0 THEN len ELSE 1]]]
          IN  IF termLists = <<>> THEN <<>> ELSE sortHits(hits)

\* ------------------------------------------------------------------ top-K
\* A comparator is passed by name: "hit" is the engine's comparator; the
\* others order integers, "byTens" leaving the integers of one decade tied.
applyComparator(comparator, a, b) ==
    CASE comparator = "hit"        -> hitComparator(a, b)
      [] comparator = "ascending"  -> a - b
      [] comparator = "descending" -> b - a
      [] comparator = "byTens"     -> (a \div 10) - (b \div 10)

\* ArrayHeap with the selector's `less`: a is worse than b.
\* Array indices are the source's (from 0); data[i + 1] is a[i].
heapLess(comparator, a, b) == applyComparator(comparator, a, b) > 0

swap(data, i, j) ==
    [x \in 1..Len(data) |->
        IF x = i + 1 THEN data[j + 1] ELSE IF x = j + 1 THEN data[i + 1] ELSE data[x]]

\* the `while (i > 0)` loop of push
RECURSIVE siftUp(_, _, _)
siftUp(comparator, data, i) ==
    IF i <= 0 THEN data
    ELSE LET parent == (i - 1) \div 2
         IN  IF ~heapLess(comparator, data[i + 1], data[parent + 1]) THEN data
             ELSE siftUp(comparator, swap(data, i, parent), parent)

heapPush(comparator, data, item) ==
    siftUp(comparator, Append(data, item), Len(data))

RECURSIVE siftDown(_, _, _)
siftDown(comparator, data, i) ==
    LET n  == Len(data)
        l  == i * 2 + 1
        r  == l + 1
        s1 == IF l < n /\ heapLess(comparator, data[l + 1], data[i + 1])
              THEN l ELSE i
        smallest == IF r < n /\ heapLess(comparator, data[r + 1], data[s1 + 1])
                    THEN r ELSE s1
    IN  IF smallest = i THEN data
        ELSE siftDown(comparator, swap(data, i, smallest), smallest)

\* the array pop() leaves behind
heapPop(comparator, data) ==
    IF data = <<>> THEN data
    ELSE LET last == data[Len(data)]
             a    == SubSeq(data, 1, Len(data) - 1)
         IN  IF a = <<>> THEN a
             ELSE siftDown(comparator, [a EXCEPT ![1] = last], 0)

\* topKLoop with a bug: a full heap never takes a better item
RECURSIVE topKLoop_KeepsFirst(_, _, _, _)
topKLoop_KeepsFirst(heap, items, k, comparator) ==
    IF items = <<>> THEN heap
    ELSE IF Len(heap) < k
         THEN topKLoop_KeepsFirst(heapPush(comparator, heap, Head(items)),
                                  Tail(items), k, comparator)
         ELSE topKLoop_KeepsFirst(heap, Tail(items), k, comparator)

\* the `for (const item of items)` loop of topK
RECURSIVE topKLoop(_, _, _, _)
topKLoop(heap, items, k, comparator) ==
    IF items = <<>> THEN heap
    ELSE LET item == Head(items)
         IN  IF Len(heap) < k
             THEN topKLoop(heapPush(comparator, heap, item), Tail(items), k,
                           comparator)
             ELSE IF applyComparator(comparator, item, heap[1]) < 0
                  THEN topKLoop(heapPush(comparator, heapPop(comparator, heap), item),
                                Tail(items), k, comparator)
                  ELSE topKLoop(heap, Tail(items), k, comparator)

\* arr.sort(comparator), stable
RECURSIVE insertBy(_, _, _)
insertBy(comparator, sorted, x) ==
    IF sorted = <<>> THEN <<x>>
    ELSE IF applyComparator(comparator, x, sorted[Len(sorted)]) < 0
         THEN Append(insertBy(comparator, SubSeq(sorted, 1, Len(sorted) - 1), x),
                     sorted[Len(sorted)])
         ELSE Append(sorted, x)

RECURSIVE sortBy(_, _)
sortBy(comparator, arr) ==
    IF arr = <<>> THEN <<>>
    ELSE insertBy(comparator, sortBy(comparator, SubSeq(arr, 1, Len(arr) - 1)),
                  arr[Len(arr)])

\* MinHeapTopKSelector.topK
topK(items, k, comparator) ==
    IF k <= 0 THEN <<>>
    ELSE sortBy(comparator, topKLoop(<<>>, items, k, comparator))

\* ------------------------------------------------------------------ engine
\* An engine value is [docs, docLengths, index, trie]: the registry Map, the
\* document-length Map and the two structures it mutates.
MapSet(m, k, v) == [x \in DOMAIN m \cup {k} |-> IF x = k THEN v ELSE m[x]]

MapDelete(m, k) == [x \in DOMAIN m \ {k} |-> m[x]]

\* accumulateToken with a bug: the positions array is created anew for
\* every token instead of only when the term has none
accumulateToken_ResetsPositions(acc, tok) ==
    LET t == tok.term
    IN  [termFreqs |-> MapSet(acc.termFreqs, t,
                         (IF t \in DOMAIN acc.termFreqs
                          THEN acc.termFreqs[t] ELSE 0) + 1),
         positions |-> MapSet(acc.positions, t, <<tok.position>>),
         length    |-> acc.length + 1,
         trie      |-> trieInsert(acc.trie, t, TRUE)]

\* One turn of the token loop of upsertDocuments on the accumulator
\* [termFreqs, positions, length, trie]
accumulateToken(acc, tok) ==
    LET t == tok.term
    IN  [termFreqs |-> MapSet(acc.termFreqs, t,
                         (IF t \in DOMAIN acc.termFreqs
                          THEN acc.termFreqs[t] ELSE 0) + 1),
         positions |-> MapSet(acc.positions, t,
                         Append(IF t \in DOMAIN acc.positions
                                THEN acc.positions[t] ELSE <<>>,
                                tok.position)),
         length    |-> acc.length + 1,
         trie      |-> trieInsert(acc.trie, t, TRUE)]

RECURSIVE accumulateTokens(_, _)
accumulateTokens(acc, tokens) ==
    IF tokens = <<>> THEN acc
    ELSE accumulateTokens(accumulateToken(acc, Head(tokens)), Tail(tokens))

\* upsertDocument with a bug: the text is tokenized with removeStopWords
upsertDocument_StripsStopWords(e, doc) ==
    LET acc == accumulateTokens(
                   [termFreqs |-> <<>>, positions |-> <<>>, length |-> 0,
                    trie |-> e.trie],
                   tokenize(doc.text, TRUE, TRUE))
    IN  [docs       |-> MapSet(e.docs, doc.id, doc),
         docLengths |-> MapSet(e.docLengths, doc.id, acc.length),
         index      |-> addDocument(e.index, doc.id, acc.termFreqs, acc.positions),
         trie       |-> acc.trie]

\* upsertDocument with a bug: the length of a document that is already in
\* the registry is left as it was
upsertDocument_KeepsFirstLength(e, doc) ==
    LET acc == accumulateTokens(
                   [termFreqs |-> <<>>, positions |-> <<>>, length |-> 0,
                    trie |-> e.trie],
                   tokenize(doc.text, TRUE, FALSE))
    IN  [docs       |-> MapSet(e.docs, doc.id, doc),
         docLengths |-> IF doc.id \in DOMAIN e.docLengths THEN e.docLengths
                        ELSE MapSet(e.docLengths, doc.id, acc.length),
         index      |-> addDocument(e.index, doc.id, acc.termFreqs, acc.positions),
         trie       |-> acc.trie]

\* The body of the `for (const doc of docs)` loop
upsertDocument(e, doc) ==
    LET acc == accumulateTokens(
                   [termFreqs |-> <<>>, positions |-> <<>>, length |-> 0,
                    trie |-> e.trie],
                   tokenize(doc.text, TRUE, FALSE))
    IN  [docs       |-> MapSet(e.docs, doc.id, doc),
         docLengths |-> MapSet(e.docLengths, doc.id, acc.length),
         index      |-> addDocument(e.index, doc.id, acc.termFreqs, acc.positions),
         trie       |-> acc.trie]

RECURSIVE upsertDocuments(_, _)
upsertDocuments(e, batch) ==
    IF batch = <<>> THEN e
    ELSE upsertDocuments(upsertDocument(e, Head(batch)), Tail(batch))

\* removeDocument with a bug: `this.deps.index.removeDocument(docId)` is missing
removeDocument_SkipsIndex(e, docId) ==
    [docs       |-> MapDelete(e.docs, docId),
     docLengths |-> MapDelete(e.docLengths, docId),
     index      |-> e.index,
     trie       |-> e.trie]

\* removeDocument with a bug: docLengths.clear() in place of delete(docId)
removeDocument_ClearsLengths(e, docId) ==
    [docs       |-> MapDelete(e.docs, docId),
     docLengths |-> <<>>,
     index      |-> indexRemoveDocument(e.index, docId),
     trie       |-> e.trie]

removeDocument(e, docId) ==
    [docs       |-> MapDelete(e.docs, docId),
     docLengths |-> MapDelete(e.docLengths, docId),
     index      |-> indexRemoveDocument(e.index, docId),
     trie       |-> e.trie]

\* ------------------------------------------------------------------ cursor
\* Buffer.from(str, "utf8"): a surrogate pair is one code point of four
\* bytes, a surrogate without its partner is written as U+FFFD
isHighSurrogate(c) == c >= 55296 /\ c <= 56319

isLowSurrogate(c) == c >= 56320 /\ c <= 57343

RECURSIVE utf8Encode(_)
utf8Encode(str) ==
    IF str = <<>> THEN <<>>
    ELSE LET c == Head(str)
         IN  IF c < 128 THEN <<c>> \o utf8Encode(Tail(str))
             ELSE IF c < 2048
                  THEN <<192 + (c \div 64), 128 + (c % 64)>> \o utf8Encode(Tail(str))
             ELSE IF isHighSurrogate(c) /\ Len(str) >= 2 /\ isLowSurrogate(str[2])
                  THEN LET cp == 65536 + (c - 55296) * 1024 + (str[2] - 56320)
                       IN  <<240 + (cp \div 262144), 128 + ((cp \div 4096) % 64),
                             128 + ((cp \div 64) % 64), 128 + (cp % 64)>>
                           \o utf8Encode(SubSeq(str, 3, Len(str)))
             ELSE IF isHighSurrogate(c) \/ isLowSurrogate(c)
                  THEN <<239, 191, 189>> \o utf8Encode(Tail(str))
             ELSE <<224 + (c \div 4096), 128 + ((c \div 64) % 64), 128 + (c % 64)>>
                  \o utf8Encode(Tail(str))

isContinuation(byte) == byte >= 128 /\ byte <= 191

\* buf.toString("utf8"): a byte that starts no well-formed sequence becomes U+FFFD
RECURSIVE utf8Decode(_)
utf8Decode(bytes) ==
    IF bytes = <<>> THEN <<>>
    ELSE LET b == bytes[1]
             n == Len(bytes)
         IN  IF b < 128 THEN <<b>> \o utf8Decode(Tail(bytes))
             ELSE IF b >= 194 /\ b <= 223 /\ n >= 2 /\ isContinuation(bytes[2])
                  THEN <<(b - 192) * 64 + (bytes[2] - 128)>>
                       \o utf8Decode(SubSeq(bytes, 3, n))
             ELSE IF b >= 224 /\ b <= 239 /\ n >= 3
                     /\ isContinuation(bytes[2]) /\ isContinuation(bytes[3])
                     /\ (b - 224) * 4096 + (bytes[2] - 128) * 64 >= 2048
                     /\ ~isHighSurrogate((b - 224) * 4096 + (bytes[2] - 128) * 64)
                     /\ ~isLowSurrogate((b - 224) * 4096 + (bytes[2] - 128) * 64)
                  THEN <<(b - 224) * 4096 + (bytes[2] - 128) * 64 + (bytes[3] - 128)>>
                       \o utf8Decode(SubSeq(bytes, 4, n))
             ELSE IF b >= 240 /\ b <= 244 /\ n >= 4
                     /\ isContinuation(bytes[2]) /\ isContinuation(bytes[3])
                     /\ isContinuation(bytes[4])
                     /\ (b - 240) * 262144 + (bytes[2] - 128) * 4096 >= 65536
                     /\ (b - 240) * 262144 + (bytes[2] - 128) * 4096 < 1114112
                  THEN LET cp == (b - 240) * 262144 + (bytes[2] - 128) * 4096
                                 + (bytes[3] - 128) * 64 + (bytes[4] - 128)
                       IN  <<55296 + ((cp - 65536) \div 1024),
                             56320 + ((cp - 65536) % 1024)>>
                           \o utf8Decode(SubSeq(bytes, 5, n))
             ELSE <<65533>> \o utf8Decode(Tail(bytes))

\* the character of a 6-bit value in the base64 alphabet A-Z a-z 0-9 + /
base64Char(v) ==
    IF v < 26 THEN 65 + v
    ELSE IF v < 52 THEN 97 + (v - 26)
    ELSE IF v < 62 THEN 48 + (v - 52)
    ELSE IF v = 62 THEN 43 ELSE 47

\* the 6-bit value of a character, -1 when it is none ("-" and "_" count as
\* "+" and "/", as in Node's decoder)
base64Value(c) ==
    IF c >= 65 /\ c <= 90 THEN c - 65
    ELSE IF c >= 97 /\ c <= 122 THEN c - 97 + 26
    ELSE IF c >= 48 /\ c <= 57 THEN c - 48 + 52
    ELSE IF c = 43 \/ c = 45 THEN 62
    ELSE IF c = 47 \/ c = 95 THEN 63
    ELSE -1

\* buf.toString("base64"), padded with "="
RECURSIVE base64Encode(_)
base64Encode(bytes) ==
    LET n == Len(bytes)
    IN  IF n = 0 THEN <<>>
        ELSE IF n = 1
             THEN <<base64Char(bytes[1] \div 4), base64Char((bytes[1] % 4) * 16), 61, 61>>
        ELSE IF n = 2
             THEN <<base64Char(bytes[1] \div 4),
                    base64Char((bytes[1] % 4) * 16 + (bytes[2] \div 16)),
                    base64Char((bytes[2] % 16) * 4), 61>>
        ELSE <<base64Char(bytes[1] \div 4),
               base64Char((bytes[1] % 4) * 16 + (bytes[2] \div 16)),
               base64Char((bytes[2] % 16) * 4 + (bytes[3] \div 64)),
               base64Char(bytes[3] % 64)>> \o base64Encode(SubSeq(bytes, 4, n))

RECURSIVE base64Sextets(_)
base64Sextets(str) ==
    IF str = <<>> THEN <<>>
    ELSE IF Head(str) = 61 THEN <<>>
    ELSE IF base64Value(Head(str)) < 0 THEN base64Sextets(Tail(str))
    ELSE <<base64Value(Head(str))>> \o base64Sextets(Tail(str))

RECURSIVE sextetsToBytes(_)
sextetsToBytes(v) ==
    LET n == Len(v)
    IN  IF n < 2 THEN <<>>
        ELSE IF n = 2 THEN <<v[1] * 4 + (v[2] \div 16)>>
        ELSE IF n = 3 THEN <<v[1] * 4 + (v[2] \div 16), (v[2] % 16) * 16 + (v[3] \div 4)>>
        ELSE <<v[1] * 4 + (v[2] \div 16), (v[2] % 16) * 16 + (v[3] \div 4),
               (v[3] % 4) * 64 + v[4]>> \o sextetsToBytes(SubSeq(v, 5, n))

\* Buffer.from(s, "base64"): characters outside the alphabet are skipped,
\* decoding stops at the first "=", and nothing is thrown
base64Decode(str) == sextetsToBytes(base64Sextets(str))

\* ------------------------------------------------------------------ search
\* /\s/ on the ASCII range: tab, line feed, vertical tab, form feed,
\* carriage return, space
isWhitespace(code) == code \in {9, 10, 11, 12, 13, 32}

\* rawQuery.trim().split(/\s+/).pop(): the last whitespace-free fragment, ""
\* when the query holds only whitespace
RECURSIVE lastFragment(_)
lastFragment(rawQuery) ==
    IF rawQuery = <<>> THEN <<>>
    ELSE IF isWhitespace(rawQuery[Len(rawQuery)])
         THEN lastFragment(SubSeq(rawQuery, 1, Len(rawQuery) - 1))
    ELSE LET ws == { i \in 1..Len(rawQuery) : isWhitespace(rawQuery[i]) }
             from == IF ws = {} THEN 1
                     ELSE 1 + CHOOSE i \in ws : \A j \in ws : j <= i
         IN  SubSeq(rawQuery, from, Len(rawQuery))

\* allHits.findIndex((h) => h.docId === decoded), from 0; -1 when none
findIndex(hits, docId) ==
    LET at == { i \in 1..Len(hits) : hits[i].docId = docId }
    IN  IF at = {} THEN -1 ELSE (CHOOSE i \in at : \A j \in at : i <= j) - 1

\* The options of one search, every field given: [limit, cursor,
\* enablePrefix, prefixLimit, candidateLimit]; cursor is Absent or
\* [present, value], candidateLimit 0 the absent option.
DefaultOptions ==
    [limit |-> 10, cursor |-> Absent, enablePrefix |-> TRUE, prefixLimit |-> 5,
     candidateLimit |-> 0]

\* searchQueryTerms with a bug: the last fragment is completed whatever its
\* length, that of an empty query included
searchQueryTerms_CompletesAnyFragment(e, rawQuery, options) ==
    LET toks  == tokenize(rawQuery, TRUE, TRUE)
        terms == [i \in 1..Len(toks) |-> toks[i].term]
        last  == lastFragment(rawQuery)
        comps == IF options.enablePrefix
                 THEN trieComplete(e.trie, toLowerCase(last), options.prefixLimit)
                 ELSE <<>>
    IN  terms \o [i \in 1..Len(comps) |-> comps[i].term]

\* the query terms search hands to the ranker
searchQueryTerms(e, rawQuery, options) ==
    LET toks  == tokenize(rawQuery, TRUE, TRUE)
        terms == [i \in 1..Len(toks) |-> toks[i].term]
        last  == lastFragment(rawQuery)
        comps == IF options.enablePrefix /\ Len(rawQuery) > 0 /\ Len(last) >= 2
                 THEN trieComplete(e.trie, toLowerCase(last), options.prefixLimit)
                 ELSE <<>>
    IN  terms \o [i \in 1..Len(comps) |-> comps[i].term]

\* the ranked list `allHits` a search pages through
searchAllHits(e, rawQuery, options) ==
    rank(searchQueryTerms(e, rawQuery, options),
         [index |-> e.index, stats |-> getStats(e.index),
          docLengths |-> e.docLengths],
         options.candidateLimit)

\* the `if (options?.cursor)` block: the index the page starts at; an empty
\* cursor is falsy, a cursor that decodes to no hit's docId leaves 0
searchStartIdx(allHits, cursor) ==
    IF cursor.present /\ cursor.value # <<>>
       /\ findIndex(allHits, utf8Decode(base64Decode(cursor.value))) >= 0
    THEN findIndex(allHits, utf8Decode(base64Decode(cursor.value))) + 1
    ELSE 0

\* searchNextCursor with a bug: a cursor is also given when the page ends
\* exactly where the ranked list ends
searchNextCursor_AtListEnd(allHits, pageHits, startIdx, limit) ==
    IF startIdx + limit <= Len(allHits) /\ Len(pageHits) > 0
    THEN [present |-> TRUE,
          value |-> base64Encode(utf8Encode(pageHits[Len(pageHits)].docId))]
    ELSE Absent

\* the `nextCursor` constant: base64 of the UTF-8 bytes of the last docId
searchNextCursor(allHits, pageHits, startIdx, limit) ==
    IF startIdx + limit < Len(allHits) /\ Len(pageHits) > 0
    THEN [present |-> TRUE,
          value |-> base64Encode(utf8Encode(pageHits[Len(pageHits)].docId))]
    ELSE Absent

\* the page built from `pageHits`
searchPage(allHits, pageHits, startIdx, limit) ==
    [hits |-> topK(pageHits, limit, "hit"),
     nextCursor |-> searchNextCursor(allHits, pageHits, startIdx, limit)]

\* the part of search from `pageHits` on
searchFrom(allHits, startIdx, limit) ==
    searchPage(allHits, slice(allHits, startIdx, startIdx + limit), startIdx, limit)

\* the part of search that pages through `allHits`
searchWithin(allHits, options) ==
    searchFrom(allHits, searchStartIdx(allHits, options.cursor), options.limit)

\* MemorySearchEngine.search: the page [hits, nextCursor], nextCursor Absent
\* or [present, value]
search(e, rawQuery, options) ==
    searchWithin(searchAllHits(e, rawQuery, options), options)

\* ------------------------------------------------------------------ state
VARIABLES
    docs,        \* MemorySearchEngine.docs
    docLengths,  \* MemorySearchEngine.docLengths
    index,       \* deps.index: MemoryInvertedIndex [termToDocMap, docs]
    trie,        \* deps.trie: MemoryTrie
    corpus,      \* history: id -> text of the documents upserted and not removed since
    removed,     \* history: ids removed and not upserted since
    lastOp,      \* history: the name of the call that produced this state
    lastShared,  \* history: ids that two documents of the last upsertDocuments call shared
    pager,       \* a client following nextCursor through the pages of one query
    trieLog,     \* history: per term, the insert calls on the trie since its last remove
    sel,         \* one call of MinHeapTopKSelector.topK: its arguments and its result
    rk,          \* two MemoryInvertedIndex values of their own, for TfIdfRanker.rank
    tk,          \* one call of SimpleTokenizer.tokenize: its arguments and its result
    http         \* the HTTP server: its engine and the response of its last request

vars == <<docs, docLengths, index, trie, corpus, removed, lastOp, lastShared,
          pager, trieLog, sel, rk, tk, http>>

\* what the engine's own operations leave alone
aux == <<pager, trieLog, sel, rk, tk, http>>

Idle == [pc |-> "idle"]

Engine == [docs |-> docs, docLengths |-> docLengths, index |-> index, trie |-> trie]

WeightsWithin(t) == \A p \in DOMAIN t : t[p].weight <= MaxWeight

Init ==
    /\ docs = <<>>
    /\ docLengths = <<>>
    /\ index = EmptyIndex
    /\ trie = EmptyTrie
    /\ corpus = <<>>
    /\ removed = {}
    /\ lastOp = "new"
    /\ lastShared = {}
    /\ pager = Idle
    /\ trieLog = <<>>
    /\ sel = Idle
    /\ rk = Idle
    /\ tk = Idle
    /\ http = Idle

\* The outcomes of upsertDocuments from the engines of `from` for every
\* argument list of at most n documents: `from` holds [e, put, shared], an
\* engine value, the id -> text of the documents upserted to reach it (the
\* later text of an id replacing the earlier) and the ids that occurred more
\* than once; each turn of the loop applies upsertDocument to one more document.  Trie weights only grow, so a list
\* that exceeds MaxWeight part-way is dropped there.
RECURSIVE UpsertOutcomes(_, _)
UpsertOutcomes(from, n) ==
    IF n = 0 \/ from = {} THEN from
    ELSE from \cup UpsertOutcomes(
             { o \in { [e   |-> upsertDocument(f.e, doc),
                        put |-> MapSet(f.put, doc.id, doc.text),
                        shared |-> f.shared \cup ({doc.id} \cap DOMAIN f.put)] :
                          f \in from, doc \in DocumentInputs } :
                   WeightsWithin(o.e.trie) },
             n - 1)

UpsertDocuments ==
    \E o \in UpsertOutcomes({[e |-> Engine, put |-> <<>>, shared |-> {}]}, MaxBatch) :
        /\ docs' = o.e.docs
        /\ docLengths' = o.e.docLengths
        /\ index' = o.e.index
        /\ trie' = o.e.trie
        /\ corpus' = [d \in DOMAIN corpus \cup DOMAIN o.put |->
                         IF d \in DOMAIN o.put THEN o.put[d] ELSE corpus[d]]
        /\ removed' = removed \ DOMAIN o.put
        /\ lastOp' = "upsertDocuments"
        /\ lastShared' = o.shared
        /\ UNCHANGED aux

RemoveDocument ==
    \E docId \in DocIds :
        LET e == removeDocument(Engine, docId)
        IN  /\ docs' = e.docs
            /\ docLengths' = e.docLengths
            /\ index' = e.index
            /\ trie' = e.trie
            /\ corpus' = MapDelete(corpus, docId)
            /\ removed' = removed \cup {docId}
            /\ lastOp' = "removeDocument"
            /\ lastShared' = {}
            /\ UNCHANGED aux

Next == UpsertDocuments \/ RemoveDocument

Spec == Init /\ [][Next]_vars

\* ------------------------------------------------------------------ pager
\* A client of one engine whose corpus no longer changes: it searches without
\* a cursor and then passes every nextCursor it gets back to search.
NewEngine == [docs |-> <<>>, docLengths |-> <<>>, index |-> EmptyIndex, trie |-> EmptyTrie]

\* "", a high surrogate without its partner, "a", "b"
PagerDocIds == { <<>>, <<55296>>, <<97>>, <<98>> }

\* "yy", "YY the-yy"
PagerTexts == Texts \ { <<>> }

PagerDocuments == [id : PagerDocIds, text : PagerTexts]

\* The engines one upsertDocuments call on a new engine gives for the
\* argument lists of at most n documents with distinct ids, each with the
\* id -> text it has upserted
RECURSIVE PagerOutcomes(_, _)
PagerOutcomes(from, n) ==
    IF n = 0 THEN from
    ELSE from \cup PagerOutcomes(
             UNION { { [e   |-> upsertDocument(f.e, doc),
                        put |-> MapSet(f.put, doc.id, doc.text)] :
                          doc \in { d \in PagerDocuments : d.id \notin DOMAIN f.put } } :
                     f \in from },
             n - 1)

PagerOptions ==
    [DefaultOptions EXCEPT !.limit = pager.limit, !.cursor = pager.cursor]

InitPager ==
    /\ \E o \in PagerOutcomes({[e |-> NewEngine, put |-> <<>>]}, MaxPagerDocs) :
          /\ o.put # <<>>
          /\ docs = o.e.docs
          /\ docLengths = o.e.docLengths
          /\ index = o.e.index
          /\ trie = o.e.trie
          /\ corpus = o.put
    /\ removed = {}
    /\ lastOp = "upsertDocuments"
    /\ lastShared = {}
    /\ \E q \in Queries \ { <<>> }, l \in 1..MaxLimit :
          pager = [pc |-> "paging", query |-> q, limit |-> l, cursor |-> Absent,
                   visited |-> <<>>, searches |-> 0]
    /\ trieLog = <<>>
    /\ sel = Idle
    /\ rk = Idle
    /\ tk = Idle
    /\ http = Idle

\* one search of the pager, with the cursor the previous page gave
PageSearch ==
    /\ pager.pc = "paging"
    /\ pager.searches < MaxSearches
    /\ LET page == search(Engine, pager.query, PagerOptions)
       IN  pager' = [pager EXCEPT
                        !.pc = IF page.nextCursor.present THEN "paging" ELSE "done",
                        !.cursor = IF page.nextCursor.present
                                   THEN [present |-> TRUE, value |-> page.nextCursor.value]
                                   ELSE Absent,
                        !.visited = pager.visited \o page.hits,
                        !.searches = pager.searches + 1]
    /\ UNCHANGED <<docs, docLengths, index, trie, corpus, removed, lastOp, lastShared,
                   trieLog, sel, rk, tk, http>>

NextPager == PageSearch

SpecPager == InitPager /\ [][NextPager]_vars

\* ------------------------------------------------------------------ selector
\* One call of MinHeapTopKSelector.topK on integers, under a comparator that
\* is a total order ("ascending", "descending") or leaves items tied ("byTens").
SelValues == {1, 2, 11, 12}

SelItems == UNION { [1..n -> SelValues] : n \in 0..MaxItems }

SelComparators == {"ascending", "descending", "byTens"}

InitSelector ==
    /\ docs = <<>>
    /\ docLengths = <<>>
    /\ index = EmptyIndex
    /\ trie = EmptyTrie
    /\ corpus = <<>>
    /\ removed = {}
    /\ lastOp = "new"
    /\ lastShared = {}
    /\ pager = Idle
    /\ trieLog = <<>>
    /\ \E items \in SelItems, k \in -1..(MaxItems + 1), comparator \in SelComparators :
          sel = [pc |-> "called", items |-> items, k |-> k,
                 comparator |-> comparator, result |-> <<>>]
    /\ rk = Idle
    /\ tk = Idle
    /\ http = Idle

TopK ==
    /\ sel.pc = "called"
    /\ sel' = [sel EXCEPT !.pc = "returned",
                          !.result = topK(sel.items, sel.k, sel.comparator)]
    /\ UNCHANGED <<docs, docLengths, index, trie, corpus, removed, lastOp, lastShared,
                   pager, trieLog, rk, tk, http>>

NextSelector == TopK

SpecSelector == InitSelector /\ [][NextSelector]_vars

\* ------------------------------------------------------------------ trie calls
\* A MemoryTrie of its own, called directly: insert with and without
\* trackFrequency, and remove.  "", "a", "ab", "b"
TrieTerms == { <<>>, <<97>>, <<97, 98>>, <<98>> }

InitTrie ==
    /\ docs = <<>>
    /\ docLengths = <<>>
    /\ index = EmptyIndex
    /\ trie = EmptyTrie
    /\ corpus = <<>>
    /\ removed = {}
    /\ lastOp = "new"
    /\ lastShared = {}
    /\ pager = Idle
    /\ trieLog = [t \in TrieTerms |-> [inserts |-> 0, tracked |-> 0]]
    /\ sel = Idle
    /\ rk = Idle
    /\ tk = Idle
    /\ http = Idle

TrieInsert ==
    \E term \in TrieTerms, trackFrequency \in BOOLEAN :
        /\ trieLog[term].inserts < MaxInserts
        /\ trie' = trieInsert(trie, term, trackFrequency)
        /\ trieLog' = [trieLog EXCEPT
                          ![term] = [inserts |-> @.inserts + 1,
                                     tracked |-> @.tracked
                                                 + (IF trackFrequency THEN 1 ELSE 0)]]
        /\ lastOp' = "insert"
        /\ UNCHANGED <<docs, docLengths, index, corpus, removed, lastShared, pager, sel,
                       rk, tk, http>>

TrieRemove ==
    \E term \in TrieTerms :
        /\ trie' = trieRemove(trie, term)
        /\ trieLog' = [trieLog EXCEPT ![term] = [inserts |-> 0, tracked |-> 0]]
        /\ lastOp' = "remove"
        /\ UNCHANGED <<docs, docLengths, index, corpus, removed, lastShared, pager, sel,
                       rk, tk, http>>

NextTrie == TrieInsert \/ TrieRemove

SpecTrie == InitTrie /\ [][NextTrie]_vars

\* ------------------------------------------------------------------ ranker calls
\* Two MemoryInvertedIndex values of their own, a and b, filled and emptied
\* by addDocument and removeDocument in any order, for TfIdfRanker.rank to be
\* called with either.  The documents "a" and "b" hold p once and have length
\* 1; "c" holds p twice and q once in a length of 9, so that it has the
\* highest score before the normalization and not after it; "d" holds q twice.
RankDocTable ==
    << [id |-> <<97>>,  termFrequencies |-> (<<112>> :> 1), length |-> 1],
       [id |-> <<98>>,  termFrequencies |-> (<<112>> :> 1), length |-> 1],
       [id |-> <<99>>,  termFrequencies |-> (<<112>> :> 2 @@ <<113>> :> 1), length |-> 9],
       [id |-> <<100>>, termFrequencies |-> (<<113>> :> 2), length |-> 4] >>

RankDocs == { RankDocTable[i] : i \in 1..MaxRankDocs }

\* "", "p", "q", "p q", "q p", "z", "p p", "p z": "z" is in no document
RankQueries ==
    { <<>>, << <<112>> >>, << <<113>> >>, << <<112>>, <<113>> >>,
      << <<113>>, <<112>> >>, << <<122>> >>, << <<112>>, <<112>> >>,
      << <<112>>, <<122>> >> }

\* positionsByTerm of a document that holds each term at its first places
RankPositions(termFrequencies) ==
    [t \in DOMAIN termFrequencies |-> [i \in 1..termFrequencies[t] |-> i - 1]]

\* The RankContext of a rank call on an index: the index, its stats, and the
\* length of every document it holds
RankContext(ix) ==
    [index |-> ix, stats |-> getStats(ix),
     docLengths |-> [d \in ix.docs |->
                        (CHOOSE doc \in RankDocs : doc.id = d).length]]

InitRanker ==
    /\ docs = <<>>
    /\ docLengths = <<>>
    /\ index = EmptyIndex
    /\ trie = EmptyTrie
    /\ corpus = <<>>
    /\ removed = {}
    /\ lastOp = "new"
    /\ lastShared = {}
    /\ pager = Idle
    /\ trieLog = <<>>
    /\ sel = Idle
    /\ rk = [pc |-> "ranking", a |-> EmptyIndex, b |-> EmptyIndex]
    /\ tk = Idle
    /\ http = Idle

\* index.addDocument on one of the two indexes
RankerAdd ==
    \E side \in {"a", "b"}, doc \in RankDocs :
        /\ rk' = [rk EXCEPT ![side] = addDocument(rk[side], doc.id, doc.termFrequencies,
                                                  RankPositions(doc.termFrequencies))]
        /\ UNCHANGED <<docs, docLengths, index, trie, corpus, removed, lastOp,
                       lastShared, pager, trieLog, sel, tk, http>>

\* index.removeDocument on one of the two indexes
RankerRemove ==
    \E side \in {"a", "b"}, doc \in RankDocs :
        /\ rk' = [rk EXCEPT ![side] = indexRemoveDocument(rk[side], doc.id)]
        /\ UNCHANGED <<docs, docLengths, index, trie, corpus, removed, lastOp,
                       lastShared, pager, trieLog, sel, tk, http>>

NextRanker == RankerAdd \/ RankerRemove

SpecRanker == InitRanker /\ [][NextRanker]_vars

\* ------------------------------------------------------------------ tokenizer calls
\* One call of SimpleTokenizer.tokenize on a text over "a", "N", "9", " "
\* and "-": "a" and "aN" lowercased are stop words, "N", "9" and "a9" are not.
TokChars == {97, 78, 57, 32, 45}

TokTexts == UNION { [1..n -> TokChars] : n \in 0..MaxTextLen }

InitTokenizer ==
    /\ docs = <<>>
    /\ docLengths = <<>>
    /\ index = EmptyIndex
    /\ trie = EmptyTrie
    /\ corpus = <<>>
    /\ removed = {}
    /\ lastOp = "new"
    /\ lastShared = {}
    /\ pager = Idle
    /\ trieLog = <<>>
    /\ sel = Idle
    /\ rk = Idle
    /\ \E text \in TokTexts, normalizeCase \in BOOLEAN, removeStopWords \in BOOLEAN :
          tk = [pc |-> "called", text |-> text, normalizeCase |-> normalizeCase,
                removeStopWords |-> removeStopWords, result |-> <<>>]
    /\ http = Idle

\* the generator run to its end
Tokenize ==
    /\ tk.pc = "called"
    /\ tk' = [tk EXCEPT !.pc = "returned",
                        !.result = tokenize(tk.text, tk.normalizeCase,
                                            tk.removeStopWords)]
    /\ UNCHANGED <<docs, docLengths, index, trie, corpus, removed, lastOp,
                   lastShared, pager, trieLog, sel, rk, http>>

NextTokenizer == Tokenize

SpecTokenizer == InitTokenizer /\ [][NextTokenizer]_vars

\* ------------------------------------------------------------------ http
\* A JSON value is a record with its type: undefined (a missing field),
\* null, number, string (its code units), array (a sequence) and object (a
\* function from field names).
JUndefined == [type |-> "undefined"]

JNull == [type |-> "null"]

JNumber(n, integer) == [type |-> "number", value |-> n, integer |-> integer]

JString(s) == [type |-> "string", value |-> s]

JArray(items) == [type |-> "array", items |-> items]

JObject(fields) == [type |-> "object", fields |-> fields]

\* obj[name]
field(obj, name) ==
    IF name \in DOMAIN obj.fields THEN obj.fields[name] ELSE JUndefined

\* typeof v === "object" && v !== null && !Array.isArray(v)
isRecord(v) == v.type = "object"

\* the string, or undefined
asString(v) == IF v.type = "string" THEN v ELSE JUndefined

\* the integer, or undefined
asInt(v) == IF v.type = "number" /\ v.integer THEN v ELSE JUndefined

\* `a ?? b`
orElse(a, b) == IF a.type \in {"undefined", "null"} THEN b ELSE a

\* `{"token":"` and `"}`, the text JSON.stringify puts around the token
EnvelopeHead == <<123, 34, 116, 111, 107, 101, 110, 34, 58, 34>>

EnvelopeTail == <<34, 125>>

\* encodeCursor: the token is base64 text, which JSON.stringify leaves as
\* it is between the quotes
encodeCursor(token) ==
    base64Encode(utf8Encode(EnvelopeHead \o token \o EnvelopeTail))

\* decodeCursor: [ok, token], ok FALSE where it throws.  JSON.parse is
\* followed for the text encodeCursor writes; any other text the
\* environment sends is no JSON, for which JSON.parse throws.
decodeCursor(cursor) ==
    LET raw == utf8Decode(base64Decode(cursor))
        n   == Len(raw)
        h   == Len(EnvelopeHead)
    IN  IF /\ n >= h + 2
           /\ SubSeq(raw, 1, h) = EnvelopeHead
           /\ SubSeq(raw, n - 1, n) = EnvelopeTail
           /\ \A i \in (h + 1)..(n - 2) : raw[i] \notin {34, 92} /\ raw[i] >= 32
        THEN IF n - 2 - h > 0
             THEN [ok |-> TRUE, token |-> SubSeq(raw, h + 1, n - 2)]
             ELSE [ok |-> FALSE]
        ELSE [ok |-> FALSE]

\* The Engine of createInMemoryEngine is [docs, e]: its own Map `docs`, as
\* the function from id to text, and its MemorySearchEngine e.
NewHttpEngine == [docs |-> <<>>, e |-> NewEngine]

\* Engine.upsert
httpUpsert(w, doc) ==
    [docs |-> MapSet(w.docs, doc.id, doc.text),
     e    |-> upsertDocuments(w.e, << [id |-> doc.id, text |-> doc.text] >>)]

\* httpHas with a bug: no id is ever reported present
httpHas_NeverPresent(w, id) == FALSE

\* Engine.has
httpHas(w, id) == id \in DOMAIN w.docs

\* Engine.search: [results, nextCursor], nextCursor JNull or a JString
httpSearchResponse(page) ==
    [results |-> [i \in 1..Len(page.hits) |->
                     [id |-> page.hits[i].docId, score |-> page.hits[i].score]],
     nextCursor |-> IF page.nextCursor.present
                    THEN JString(page.nextCursor.value) ELSE JNull]

httpSearch(w, query, limit, mode, cursor) ==
    httpSearchResponse(
        search(w.e, query,
               [limit |-> limit,
                cursor |-> IF cursor.present /\ cursor.value # <<>>
                           THEN cursor ELSE Absent,
                enablePrefix |-> mode = "prefix",
                prefixLimit |-> 5,
                candidateLimit |-> 0]))

\* readJson: [threw, value]; JSON.parse throws for a body that is no JSON,
\* an empty body is null
readJson(req) ==
    IF req.body.raw = "empty" THEN [threw |-> FALSE, value |-> JNull]
    ELSE IF req.body.raw = "malformed" THEN [threw |-> TRUE]
    ELSE [threw |-> FALSE, value |-> req.body.value]

\* isJson: the media type before ";" is, trimmed and lowercased,
\* application/json
isJson(req) ==
    req.contentType \in {"application/json", "Application/JSON ; charset=utf-8"}

\* A response is [status, code, errors, body]: code is the problem's code
\* or "OK", errors the paths of the problem's field errors.
sendProblem(status, code, errors) ==
    [status |-> status, code |-> code, errors |-> errors, body |-> JNull]

sendJson(status, body) ==
    [status |-> status, code |-> "OK", errors |-> <<>>, body |-> body]

\* What a handler leaves: the engine, the response, and the calls of
\* engine.upsert (the documents, with the index of their item) and
\* engine.search it made
Handled(w, response, upserts, searches) ==
    [w |-> w, response |-> response, upserts |-> upserts, searches |-> searches]

failure(i, id, message) ==
    [index |-> i, id |-> id, code |-> "INVALID_ARGUMENT", message |-> message]

\* The `for (let i = 0; ...)` loop of POST /documents from item i, with what
\* the items before it left
RECURSIVE ingest(_, _, _, _, _, _, _)
ingest(w, items, i, onDuplicate, ingested, failures, upserts) ==
    IF i >= Len(items)
    THEN [w |-> w, ingested |-> ingested, failures |-> failures, upserts |-> upserts]
    ELSE
      LET d    == items[i + 1]
          id   == IF isRecord(d) THEN asString(field(d, "id")) ELSE JUndefined
          text == IF isRecord(d) THEN asString(field(d, "text")) ELSE JUndefined
          failed(f) == ingest(w, items, i + 1, onDuplicate, ingested,
                              Append(failures, f), upserts)
      IN  IF ~isRecord(d)
          THEN failed(failure(i, JNull, "document must be an object"))
          ELSE IF id = JUndefined \/ Len(id.value) < 1
          THEN failed(failure(i, JNull, "id must be non-empty"))
          ELSE IF Len(id.value) > MaxIdLength
          THEN failed(failure(i, id, "id too long"))
          ELSE IF text = JUndefined \/ Len(text.value) < 1
          THEN failed(failure(i, id, "text must be non-empty"))
          ELSE IF Len(text.value) > MaxTextLength
          THEN failed(failure(i, id, "text too long"))
          ELSE IF onDuplicate = "skip" /\ httpHas(w, id.value)
          THEN ingest(w, items, i + 1, onDuplicate, ingested, failures, upserts)
          ELSE ingest(httpUpsert(w, [id |-> id.value, text |-> text.value]),
                      items, i + 1, onDuplicate, ingested + 1, failures,
                      Append(upserts, [index |-> i, id |-> id.value,
                                       text |-> text.value]))

\* body.options.onDuplicate as the handler reads it: a string, "replace"
\* when there is none
onDuplicateOf(body) ==
    IF isRecord(field(body, "options"))
    THEN orElse(asString(field(field(body, "options"), "onDuplicate")),
                JString("replace")).value
    ELSE "replace"

\* the field errors of a POST /documents body
documentsErrors(body) ==
    LET docsVal == field(body, "documents")
    IN  (IF docsVal.type # "array" THEN <<"$.documents">> ELSE <<>>)
        \o (IF docsVal.type = "array" /\ Len(docsVal.items) < 1
            THEN <<"$.documents">> ELSE <<>>)
        \o (IF docsVal.type = "array" /\ Len(docsVal.items) > MaxDocuments
            THEN <<"$.documents">> ELSE <<>>)
        \o (IF onDuplicateOf(body) \notin {"replace", "skip"}
            THEN <<"$.options.onDuplicate">> ELSE <<>>)

\* the response of POST /documents after the loop
documentsResponse(r) ==
    Handled(r.w,
            sendJson(IF Len(r.failures) > 0 THEN 207 ELSE 200,
                     [ingested |-> r.ingested, failed |-> Len(r.failures),
                      failures |-> r.failures]),
            r.upserts, 0)

\* POST /documents
postDocuments(w, req) ==
    IF ~isJson(req)
    THEN Handled(w, sendProblem(415, "UNSUPPORTED_MEDIA_TYPE", <<>>), <<>>, 0)
    ELSE IF readJson(req).threw
    THEN Handled(w, sendProblem(500, "INTERNAL", <<>>), <<>>, 0)
    ELSE IF ~isRecord(readJson(req).value)
    THEN Handled(w, sendProblem(400, "INVALID_ARGUMENT", <<>>), <<>>, 0)
    ELSE IF documentsErrors(readJson(req).value) # <<>>
    THEN Handled(w, sendProblem(400, "INVALID_ARGUMENT",
                                documentsErrors(readJson(req).value)), <<>>, 0)
    ELSE documentsResponse(
             ingest(w, field(readJson(req).value, "documents").items, 0,
                    onDuplicateOf(readJson(req).value), 0, <<>>, <<>>))

\* the cursor of a POST /search body: [error, cursor]
searchCursor(body) ==
    LET page == field(body, "page")
    IN  IF isRecord(page) /\ field(page, "cursor").type \notin {"undefined", "null"}
        THEN LET cursorStr == asString(field(page, "cursor"))
             IN  IF cursorStr = JUndefined \/ cursorStr.value = <<>>
                 THEN [error |-> TRUE, cursor |-> Absent]
                 ELSE IF decodeCursor(cursorStr.value).ok
                      THEN [error |-> FALSE,
                            cursor |-> [present |-> TRUE,
                                        value |-> decodeCursor(cursorStr.value).token]]
                      ELSE [error |-> TRUE, cursor |-> Absent]
        ELSE [error |-> FALSE, cursor |-> Absent]

searchTopK(body) == orElse(asInt(field(body, "topK")), JNumber(10, TRUE)).value

searchMode(body) == orElse(asString(field(body, "mode")), JString("fulltext")).value

\* searchErrors with a bug: the cursor's error is not pushed
searchErrors_IgnoresCursor(body) ==
    LET query == asString(field(body, "query"))
    IN  (IF query = JUndefined \/ query.value = <<>> THEN <<"$.query">> ELSE <<>>)
        \o (IF searchTopK(body) < 1 \/ searchTopK(body) > MaxTopK
            THEN <<"$.topK">> ELSE <<>>)
        \o (IF searchMode(body) \notin {"fulltext", "prefix"}
            THEN <<"$.mode">> ELSE <<>>)

\* the field errors of a POST /search body
searchErrors(body) ==
    LET query == asString(field(body, "query"))
    IN  (IF query = JUndefined \/ query.value = <<>> THEN <<"$.query">> ELSE <<>>)
        \o (IF query # JUndefined /\ Len(query.value) > MaxQueryLength
            THEN <<"$.query">> ELSE <<>>)
        \o (IF searchTopK(body) < 1 \/ searchTopK(body) > MaxTopK
            THEN <<"$.topK">> ELSE <<>>)
        \o (IF searchMode(body) \notin {"fulltext", "prefix"}
            THEN <<"$.mode">> ELSE <<>>)
        \o (IF searchCursor(body).error THEN <<"$.page.cursor">> ELSE <<>>)

\* the response of POST /search to what engine.search returned
searchResponse(w, r) ==
    Handled(w,
            sendJson(200,
                     [results |-> r.results,
                      nextCursor |-> IF r.nextCursor.type = "string"
                                        /\ r.nextCursor.value # <<>>
                                     THEN JString(encodeCursor(r.nextCursor.value))
                                     ELSE JNull]),
            <<>>, 1)

\* POST /search
postSearch(w, req) ==
    IF ~isJson(req)
    THEN Handled(w, sendProblem(415, "UNSUPPORTED_MEDIA_TYPE", <<>>), <<>>, 0)
    ELSE IF readJson(req).threw
    THEN Handled(w, sendProblem(500, "INTERNAL", <<>>), <<>>, 0)
    ELSE IF ~isRecord(readJson(req).value)
    THEN Handled(w, sendProblem(400, "INVALID_ARGUMENT", <<>>), <<>>, 0)
    ELSE IF searchErrors(readJson(req).value) # <<>>
    THEN Handled(w, sendProblem(400, "INVALID_ARGUMENT",
                                searchErrors(readJson(req).value)), <<>>, 0)
    ELSE searchResponse(w, httpSearch(w, field(readJson(req).value, "query").value,
                                      searchTopK(readJson(req).value),
                                      searchMode(readJson(req).value),
                                      searchCursor(readJson(req).value).cursor))

\* the request listener of createServer
handle(w, metricsEnabled, req) ==
    IF req.method = "GET" /\ req.path = "/health"
    THEN Handled(w, sendJson(200, [status |-> "ok"]), <<>>, 0)
    ELSE IF req.method = "GET" /\ req.path = "/metrics"
    THEN Handled(w, IF metricsEnabled THEN sendJson(200, JNull)
                    ELSE sendProblem(404, "NOT_FOUND", <<>>), <<>>, 0)
    ELSE IF req.method = "POST" /\ req.path = "/documents" THEN postDocuments(w, req)
    ELSE IF req.method = "POST" /\ req.path = "/search" THEN postSearch(w, req)
    ELSE Handled(w, sendProblem(404, "NOT_FOUND", <<>>), <<>>, 0)

\* The ids "a", "b" and "" and the texts "yy", "the" and "" of the documents
\* the clients send; an item that is no object
HttpDocument(id, text) == JObject([id |-> JString(id), text |-> JString(text)])

HttpItems ==
    { HttpDocument(<<97>>, <<121, 121>>), HttpDocument(<<97>>, <<116, 104, 101>>),
      HttpDocument(<<98>>, <<121, 121>>), HttpDocument(<<>>, <<121, 121>>),
      HttpDocument(<<97>>, <<>>), JNumber(1, TRUE) }

HttpBatches == UNION { [1..n -> HttpItems] : n \in 0..MaxHttpBatch }

HttpOptions ==
    { JUndefined, JObject([onDuplicate |-> JString("skip")]),
      JObject([onDuplicate |-> JString("replace")]),
      JObject([onDuplicate |-> JString("merge")]) }

Json(value) == [raw |-> "json", value |-> value]

\* The bodies of POST /documents: empty, no JSON, an array, an object
\* without documents, and the objects with a batch and options
DocumentsBodies ==
    { [raw |-> "empty"], [raw |-> "malformed"], Json(JArray(<<>>)),
      Json(JObject([options |-> JNull])) }
    \cup { Json(JObject([documents |-> JArray(b), options |-> o])) :
             b \in HttpBatches, o \in HttpOptions }

\* page.cursor: none, the envelope of the engine cursor of "a", a text that
\* is no base64 of JSON, the envelope of an empty token, a number
HttpPages ==
    { JUndefined,
      JObject([cursor |-> JString(encodeCursor(base64Encode(utf8Encode(<<97>>))))]),
      JObject([cursor |-> JString(<<33, 33>>)]),
      JObject([cursor |-> JString(encodeCursor(<<>>))]),
      JObject([cursor |-> JNumber(1, TRUE)]) }

\* The bodies of POST /search: query missing, "" and "yy"; topK missing, 0,
\* 1 and 1.5; mode missing, "prefix" and one that is not a mode
SearchBodies ==
    { [raw |-> "empty"], [raw |-> "malformed"], Json(JString(<<121, 121>>)) }
    \cup { Json(JObject([query |-> q, topK |-> k, mode |-> m, page |-> p])) :
             q \in { JUndefined, JString(<<>>), JString(<<121, 121>>) },
             k \in { JUndefined, JNumber(0, TRUE), JNumber(1, TRUE), JNumber(1, FALSE) },
             m \in { JUndefined, JString("prefix"), JString("exact") },
             p \in HttpPages }

HttpRequests ==
    { [method |-> "POST", path |-> "/documents", contentType |-> "application/json",
       body |-> b] : b \in DocumentsBodies }
    \cup { [method |-> "POST", path |-> "/search", contentType |-> "application/json",
            body |-> b] : b \in SearchBodies }
    \cup { [method |-> "POST", path |-> p, contentType |-> c,
            body |-> Json(JObject([query |-> JString(<<121, 121>>),
                                   documents |-> JArray(<<HttpDocument(<<98>>, <<121, 121>>)>>)]))] :
             p \in {"/documents", "/search", "/health"},
             c \in {"text/plain", "Application/JSON ; charset=utf-8"} }
    \cup { [method |-> "GET", path |-> p, contentType |-> "", body |-> [raw |-> "empty"]] :
             p \in {"/health", "/metrics", "/documents"} }

InitHttp ==
    /\ docs = <<>>
    /\ docLengths = <<>>
    /\ index = EmptyIndex
    /\ trie = EmptyTrie
    /\ corpus = <<>>
    /\ removed = {}
    /\ lastOp = "new"
    /\ lastShared = {}
    /\ pager = Idle
    /\ trieLog = <<>>
    /\ sel = Idle
    /\ rk = Idle
    /\ tk = Idle
    /\ http = [pc |-> "listening", metricsEnabled |-> FALSE, docs |-> <<>>]

\* The request listener run on one request, up to the response it has
\* built
HttpRequest ==
    /\ http.pc = "listening"
    /\ \E req \in HttpRequests :
          \E r \in { handle([docs |-> http.docs, e |-> Engine],
                             http.metricsEnabled, req) } :
              /\ WeightsWithin(r.w.e.trie)
              /\ docs' = r.w.e.docs
              /\ docLengths' = r.w.e.docLengths
              /\ index' = r.w.e.index
              /\ trie' = r.w.e.trie
              /\ http' = [pc |-> "responded", metricsEnabled |-> http.metricsEnabled,
                          docs |-> r.w.docs, request |-> req, response |-> r.response,
                          upserts |-> r.upserts, searches |-> r.searches,
                          before |-> [docs |-> http.docs, e |-> Engine]]
    /\ UNCHANGED <<corpus, removed, lastOp, lastShared, pager, trieLog, sel, rk, tk>>

\* res.end: the response is written and the listener is ready for the next
\* request
SendResponse ==
    /\ http.pc = "responded"
    /\ http' = [pc |-> "listening", metricsEnabled |-> http.metricsEnabled,
                docs |-> http.docs]
    /\ UNCHANGED <<docs, docLengths, index, trie, corpus, removed, lastOp,
                   lastShared, pager, trieLog, sel, rk, tk>>

NextHttp == HttpRequest \/ SendResponse

SpecHttp == InitHttp /\ [][NextHttp]_vars

\* ---- Concurrent requests ----
\* Node runs the async request listener of createServer on one thread: a
\* call of the listener runs until its `await readJson(req)`, other
\* listeners run while the body arrives, and what follows the await runs
\* in one turn of the event loop up to the next await.

MaxConnections == 2

Connections == 1..MaxConnections

Closed == [pc |-> "closed"]

\* The listener reaches `await readJson(req)`: a POST to /documents or
\* /search with a JSON content type
awaitsBody(req) ==
    req.method = "POST" /\ req.path \in {"/documents", "/search"} /\ isJson(req)

\* A request whose body has been read enters the loop of POST /documents
entersLoop(req) ==
    /\ req.path = "/documents"
    /\ ~readJson(req).threw
    /\ isRecord(readJson(req).value)
    /\ documentsErrors(readJson(req).value) = <<>>

\* loopTurn with a bug: the loop awaits after every item
loopTurn_AwaitsPerItem(items, i) == IF i < Len(items) THEN i + 1 ELSE Len(items)

\* The item at which the `for (let i = 0; ...)` loop of POST /documents,
\* running from item i, next gives up the thread: its body holds no await,
\* so it is left at the end only
loopTurn(items, i) == Len(items)

\* A batch of two documents, a batch that replaces one of them, a batch
\* with onDuplicate = "skip", a search for "yy", a request with a body that
\* is no JSON and a GET
ServerRequests ==
    { [method |-> "POST", path |-> "/documents", contentType |-> "application/json",
       body |-> b] :
         b \in { Json(JObject([documents |-> JArray(<< HttpDocument(<<97>>, <<121, 121>>),
                                                        HttpDocument(<<98>>, <<121, 121>>) >>),
                               options |-> JUndefined])),
                 Json(JObject([documents |-> JArray(<< HttpDocument(<<97>>, <<116, 104, 101>>) >>),
                               options |-> JUndefined])),
                 Json(JObject([documents |-> JArray(<< HttpDocument(<<98>>, <<116, 104, 101>>),
                                                        HttpDocument(<<97>>, <<116, 104, 101>>) >>),
                               options |-> JObject([onDuplicate |-> JString("skip")])])),
                 [raw |-> "malformed"] } }
    \cup { [method |-> "POST", path |-> "/search", contentType |-> "application/json",
            body |-> Json(JObject([query |-> JString(<<121, 121>>), topK |-> JUndefined,
                                   mode |-> JUndefined, page |-> JUndefined]))],
           [method |-> "GET", path |-> "/health", contentType |-> "",
            body |-> [raw |-> "empty"]] }

InitServer ==
    /\ docs = <<>>
    /\ docLengths = <<>>
    /\ index = EmptyIndex
    /\ trie = EmptyTrie
    /\ corpus = <<>>
    /\ removed = {}
    /\ lastOp = "new"
    /\ lastShared = {}
    /\ pager = Idle
    /\ trieLog = <<>>
    /\ sel = Idle
    /\ rk = Idle
    /\ tk = Idle
    /\ http = [pc |-> "serving", metricsEnabled |-> FALSE, docs |-> <<>>,
               conns |-> [c \in Connections |-> Closed]]

\* The connections whose request is between two turns of its loop
MidLoop(c) == { x \in Connections \ {c} : http.conns[x].pc = "looping" }

\* The connections whose listener waits for the body
Reading(c) == { x \in Connections \ {c} : http.conns[x].pc = "reading" }

\* A connection whose request has its response: the path, the status, the
\* number of engine.upsert calls and of hits; `during` holds the
\* connections that were between two turns of their loop when the request
\* called the engine, `overlapped` says that another request was waiting
\* for its body when this one came in
Responded(conn, r, during) ==
    [pc |-> "responded", path |-> conn.req.path, overlapped |-> conn.overlapped,
     status |-> r.response.status, upserts |-> Len(r.upserts),
     hits |-> IF r.searches > 0 /\ r.response.status = 200
              THEN Len(r.response.body.results) ELSE 0,
     during |-> during]

\* The engine and the connection c are left as a turn of c's listener
\* leaves them
Leaves(c, w, conn) ==
    /\ WeightsWithin(w.e.trie)
    /\ docs' = w.e.docs
    /\ docLengths' = w.e.docLengths
    /\ index' = w.e.index
    /\ trie' = w.e.trie
    /\ http' = [http EXCEPT !.docs = w.docs, !.conns[c] = conn]
    /\ UNCHANGED <<corpus, removed, lastOp, lastShared, pager, trieLog, sel, rk, tk>>

\* A request comes in and the listener runs up to `await readJson(req)`, or
\* to its response when it does not get there
Accept ==
    \E c \in Connections, req \in ServerRequests :
        /\ http.pc = "serving"
        /\ http.conns[c] = Closed
        /\ LET conn == [pc |-> "reading", req |-> req, overlapped |-> Reading(c) # {}]
               w    == [docs |-> http.docs, e |-> Engine]
           IN  IF awaitsBody(req)
               THEN Leaves(c, w, conn)
               ELSE Leaves(c, w, Responded(conn, handle(w, http.metricsEnabled, req), {}))

\* One turn of the loop of POST /documents on connection c, from item i
\* with what the turns before have left in acc
LoopTurn(c, conn, w, items, i, acc) ==
    \E stop \in { loopTurn(items, i) } :
        \E r \in { ingest(w, SubSeq(items, 1, stop), i,
                          onDuplicateOf(readJson(conn.req).value),
                          acc.ingested, acc.failures, acc.upserts) } :
            \E during \in { acc.during \cup (IF Len(r.upserts) > Len(acc.upserts)
                                             THEN MidLoop(c) ELSE {}) } :
                IF stop >= Len(items)
                THEN Leaves(c, r.w, Responded(conn, documentsResponse(r), during))
                ELSE Leaves(c, r.w,
                            [pc |-> "looping", req |-> conn.req,
                             overlapped |-> conn.overlapped, i |-> stop,
                             ingested |-> r.ingested, failures |-> r.failures,
                             upserts |-> r.upserts, during |-> during])

\* The body of the request on connection c has arrived, or its loop goes
\* on after an await: the listener runs to its next await or to its
\* response
Resume ==
    \E c \in Connections :
        /\ http.pc = "serving"
        /\ http.conns[c].pc \in {"reading", "looping"}
        /\ LET conn == http.conns[c]
               w    == [docs |-> http.docs, e |-> Engine]
           IN  IF conn.pc = "looping"
               THEN LoopTurn(c, conn, w,
                             field(readJson(conn.req).value, "documents").items,
                             conn.i, conn)
               ELSE IF entersLoop(conn.req)
               THEN LoopTurn(c, conn, w,
                             field(readJson(conn.req).value, "documents").items, 0,
                             [ingested |-> 0, failures |-> <<>>, upserts |-> <<>>,
                              during |-> {}])
               ELSE \E r \in { handle(w, http.metricsEnabled, conn.req) } :
                        Leaves(c, r.w,
                               Responded(conn, r,
                                         IF r.searches > 0 THEN MidLoop(c) ELSE {}))

\* res.end: the response is written and the connection is free for the
\* next request
Close ==
    \E c \in Connections :
        /\ http.pc = "serving"
        /\ http.conns[c].pc = "responded"
        /\ http' = [http EXCEPT !.conns[c] = Closed]
        /\ UNCHANGED <<docs, docLengths, index, trie, corpus, removed, lastOp,
                       lastShared, pager, trieLog, sel, rk, tk>>

NextServer == Accept \/ Resume \/ Close

SpecServer == InitServer /\ [][NextServer]_vars

\* ------------------------------------------------------------------ views
\* The terms SimpleTokenizer yields for a text at indexing time
TextTerms(text) ==
    LET toks == tokenize(text, TRUE, FALSE)
    IN  { toks[i].term : i \in 1..Len(toks) }

\* Every term a text of the environment holds, and "z", which none holds
Terms == UNION { TextTerms(text) : text \in Texts } \cup { <<122>> }

PostingDocIds(pl) ==
    IF pl.present THEN { pl.postings[i].docId : i \in 1..Len(pl.postings) } ELSE {}

StrictlyIncreasing(s) == \A i \in 1..(Len(s) - 1) : s[i] < s[i + 1]

\* The cursors search can have returned, and one that is no base64 of an id
Cursors ==
    {Absent} \cup { [present |-> TRUE, value |-> base64Encode(utf8Encode(d))] : d \in DocIds }

\* The options the environment searches with
SearchOptions ==
    { [limit |-> l, cursor |-> c, enablePrefix |-> p, prefixLimit |-> 5,
       candidateLimit |-> k] :
         l \in {1, 10}, c \in Cursors, p \in BOOLEAN, k \in {0, 1} }

\* The same options asking for a page of no hits
ZeroLimitOptions == { [o EXCEPT !.limit = 0] : o \in SearchOptions }

HitDocIds(page) == { page.hits[i].docId : i \in 1..Len(page.hits) }

\* What the index's public queries show: the document set and every term's postings
IndexView(ix) ==
    [docCount |-> getStats(ix).docCount,
     postings |-> [t \in Terms |-> getPostings(ix, t)],
     hasTerm  |-> [t \in Terms |-> hasTerm(ix, t)]]

\* ------------------------------------------------------------------ claims
\* C1: docCount equals the number of distinct ids upserted and not removed
\* since, a re-upserted id counted once and a document without tokens counted.
C1_DocCountIsLiveIds ==
    getStats(index).docCount = Cardinality(DOMAIN corpus)

\* A document without tokens that was upserted over an earlier text of the
\* same id is counted, while another id has been removed.
C1_Witness ==
    /\ removed # {}
    /\ \E d \in DOMAIN corpus :
          /\ tokenize(corpus[d], TRUE, FALSE) = <<>>
          /\ \E t \in DOMAIN index.termToDocMap : docMapHas(index.termToDocMap[t], d)
          /\ getStats(index).docCount = 1

\* C2: a second addDocument of a docId replaces its entries: every document
\* of the index is in getPostings(t) exactly for the terms t that are keys of
\* the term frequencies of its latest addDocument (those of its current text).
C2_AddDocumentReplaces ==
    \A d \in DOMAIN corpus : \A t \in Terms :
        d \in PostingDocIds(getPostings(index, t)) <=> t \in TextTerms(corpus[d])

\* C3: every docId of every posting is in the index's document set and is a
\* key of the engine's registry.
C3_PostingsAreRegistered ==
    \A t \in Terms :
        \A d \in PostingDocIds(getPostings(index, t)) :
            d \in index.docs /\ d \in DOMAIN docs

\* A removal has happened and postings of a remaining document are left.
C3_Witness ==
    /\ lastOp = "removeDocument"
    /\ removed # {}
    /\ \E t \in Terms : PostingDocIds(getPostings(index, t)) # {}

\* C4: getPostings(t).postings is strictly increasing by docId and df is its
\* length, whatever the order in which the documents were added.
C4_PostingsSorted ==
    \A t \in Terms :
        LET pl == getPostings(index, t)
        IN  pl.present =>
              /\ pl.df = Len(pl.postings)
              /\ \A i \in 1..(Len(pl.postings) - 1) :
                    StrLess(pl.postings[i].docId, pl.postings[i + 1].docId)

\* Two documents hold a term and were added in descending docId order.
C4_Witness ==
    \E t \in DOMAIN index.termToDocMap :
        LET m == index.termToDocMap[t]
        IN  Len(m) >= 2 /\ StrLess(m[2].docId, m[1].docId)

\* C5: getPostings never returns a postings list with df = 0; a term all of
\* whose documents were removed is absent.
C5_NoEmptyPostingsList ==
    \A t \in Terms :
        LET pl == getPostings(index, t)
        IN  pl.present => pl.df # 0

\* C6: hasTerm(t) holds exactly when the current text of some currently
\* upserted document contains t.
C6_HasTermIffLiveText ==
    \A t \in Terms :
        hasTerm(index, t) <=> \E d \in DOMAIN corpus : t \in TextTerms(corpus[d])

\* C7: once removeDocument(d) has run and until d is upserted again, no
\* postings list of any term contains d and no search, whatever the query and
\* the options, returns a hit with docId d.
C7_RemovedNeverReturned ==
    \A d \in removed :
        /\ \A t \in Terms : d \notin PostingDocIds(getPostings(index, t))
        /\ \A q \in Queries : \A o \in SearchOptions :
              d \notin HitDocIds(search(Engine, q, o))

\* A document was just removed and a search still returns the other one.
C7_Witness ==
    /\ lastOp = "removeDocument"
    /\ removed # {}
    /\ \E q \in Queries : \E o \in SearchOptions :
          HitDocIds(search(Engine, q, o)) # {}

\* C8: every posting has tf >= 1 and a strictly increasing positions array of
\* length tf.
C8_PostingWellFormed ==
    \A t \in Terms :
        LET pl == getPostings(index, t)
        IN  pl.present =>
              \A i \in 1..Len(pl.postings) :
                 /\ pl.postings[i].tf >= 1
                 /\ Len(pl.postings[i].positions) = pl.postings[i].tf
                 /\ StrictlyIncreasing(pl.postings[i].positions)

\* A posting of a term that occurs twice in its document, at positions 0 and 2.
C8_Witness ==
    \E t \in Terms :
        LET pl == getPostings(index, t)
        IN  /\ pl.present
            /\ \E i \in 1..Len(pl.postings) :
                  pl.postings[i].tf = 2 /\ pl.postings[i].positions = <<0, 2>>

\* C9: upserting the same document a second time leaves the index (document
\* set and every term's postings, tf and positions) as the first upsert left it.
C9_ReupsertIdempotent ==
    \A doc \in DocumentInputs :
        LET e1 == upsertDocuments(Engine, <<doc>>)
            e2 == upsertDocuments(e1, <<doc>>)
        IN  /\ IndexView(e2.index) = IndexView(e1.index)
            /\ e2.index = e1.index

\* The only document ever upserted is "yy" under one id, and it was upserted
\* twice (its term has trie weight 2).
C9_Witness ==
    /\ lastOp = "upsertDocuments"
    /\ removed = {}
    /\ \E d \in DocIds :
          /\ DOMAIN corpus = {d}
          /\ corpus[d] = <<121, 121>>
          /\ DOMAIN trie = {<<>>, <<121>>, <<121, 121>>}
          /\ trie[<<121, 121>>].weight = 2
          /\ PostingDocIds(getPostings(index, <<121, 121>>)) = {d}

\* C10: when two documents of one upsertDocuments call share an id, the
\* registry entry, the stored length and the index postings of that id
\* reflect only the later document's text.
C10_LaterDocumentWins ==
    \A d \in lastShared :
        /\ d \in DOMAIN docs /\ docs[d] = [id |-> d, text |-> corpus[d]]
        /\ d \in DOMAIN docLengths
        /\ docLengths[d] = Len(tokenize(corpus[d], TRUE, FALSE))
        /\ \A t \in Terms :
              d \in PostingDocIds(getPostings(index, t)) <=> t \in TextTerms(corpus[d])

\* score descending, and docId ascending among equal scores
HitsOrdered(hits) ==
    \A i, j \in 1..Len(hits) :
        i < j => \/ scoreSign(hits[i].score, hits[j].score) > 0
                 \/ /\ scoreSign(hits[i].score, hits[j].score) = 0
                    /\ StrLess(hits[i].docId, hits[j].docId)

\* The options that differ from o in limit and cursor only: they page
\* through the ranked list of o
SamePaging(o, options) ==
    { x \in options : /\ x.enablePrefix = o.enablePrefix
                      /\ x.prefixLimit = o.prefixLimit
                      /\ x.candidateLimit = o.candidateLimit }

\* One option value for every ranked list the options of SearchOptions lead to
RankingOptions == { o \in SearchOptions : o.limit = 10 /\ o.cursor = Absent }

\* C11: the hits the ranker returns, and the hits of every search page, are
\* ordered by score descending with ties broken by docId ascending.
C11_HitsOrdered ==
    \A q \in Queries, r \in RankingOptions :
        LET allHits == searchAllHits(Engine, q, r)
        IN  /\ HitsOrdered(allHits)
            /\ \A o \in SamePaging(r, SearchOptions) :
                  HitsOrdered(searchWithin(allHits, o).hits)

\* A page of two hits with equal scores, whose ids were upserted in
\* descending order.
C11_Witness ==
    /\ \E t \in DOMAIN index.termToDocMap :
          LET docMap == index.termToDocMap[t]
          IN  Len(docMap) = 2 /\ StrLess(docMap[2].docId, docMap[1].docId)
    /\ \E q \in Queries, o \in SearchOptions :
          LET hits == search(Engine, q, o).hits
          IN  Len(hits) = 2 /\ scoreSign(hits[1].score, hits[2].score) = 0

IsPrefix(s, t) == Len(s) <= Len(t) /\ SubSeq(t, 1, Len(s)) = s

\* C12: a pager of an unchanged corpus has at every moment visited a prefix
\* of the ranked list, so no hit twice and none out of rank order, and when a
\* page comes without nextCursor it has visited the whole list.
C12_PagerVisitsEachHitOnce ==
    pager.pc # "idle" =>
        LET allHits == searchAllHits(Engine, pager.query, PagerOptions)
        IN  /\ IsPrefix(pager.visited, allHits)
            /\ pager.pc = "done" => pager.visited = allHits

\* search gives a nextCursor exactly when start + limit < |allHits| and the
\* page has a hit, and then cursorOf[docId of the page's last hit]
CursorGivenAs(cursorOf) ==
    \A q \in Queries, r \in RankingOptions :
        LET allHits == searchAllHits(Engine, q, r)
        IN  \A o \in SamePaging(r, SearchOptions \cup ZeroLimitOptions) :
                LET start == searchStartIdx(allHits, o.cursor)
                    page  == searchWithin(allHits, o)
                IN  IF start + o.limit < Len(allHits) /\ page.hits # <<>>
                    THEN /\ page.nextCursor.present
                         /\ page.nextCursor.value
                                = cursorOf[page.hits[Len(page.hits)].docId]
                    ELSE ~page.nextCursor.present

UnknownDocId == <<122>>

CursorOf(docId) == [present |-> TRUE, value |-> base64Encode(utf8Encode(docId))]

\* no cursor, or the empty one
MissingCursors == { Absent, [present |-> TRUE, value |-> <<>>] }

\* texts that are no base64: "!", and "!" before the base64 of an id
MalformedCursors ==
    { [present |-> TRUE, value |-> <<33>>] }
    \cup { [present |-> TRUE, value |-> <<33>> \o CursorOf(d).value] : d \in DocIds }

\* the cursors of ids that are not in the ranked list
StaleCursors(allHits) ==
    { CursorOf(d) : d \in { x \in DocIds \cup {UnknownDocId} :
                              \A i \in 1..Len(allHits) : allHits[i].docId # x } }

\* C14: a search with a missing cursor, a malformed cursor or the cursor of a
\* docId that is not in the ranked list returns what the search without a
\* cursor returns, the first page.
C14_BadCursorGivesFirstPage ==
    \A q \in Queries, o \in SearchOptions :
        \A c \in MissingCursors \cup MalformedCursors
                 \cup StaleCursors(searchAllHits(Engine, q, o)) :
            search(Engine, q, [o EXCEPT !.cursor = c])
                = search(Engine, q, [o EXCEPT !.cursor = Absent])

\* Option values beyond the usual ones: limits that are no page size, a
\* prefixLimit of 0, missing and malformed cursors
AnyOptions ==
    { [limit |-> l, cursor |-> c, enablePrefix |-> p, prefixLimit |-> pl,
       candidateLimit |-> k] :
         l \in {-1, 0, 1, 10}, c \in Cursors \cup MissingCursors \cup MalformedCursors,
         p \in BOOLEAN, pl \in {0, 5}, k \in {0, 1} }

EmptyPage == [hits |-> <<>>, nextCursor |-> Absent]

\* C15: a search with the empty raw query, and every search of an engine
\* that holds no document, returns no hit and no nextCursor, whatever the
\* options.
C15_EmptyQueryOrEmptyEngine ==
    \A q \in Queries, o \in AnyOptions :
        (q = <<>> \/ DOMAIN corpus = {}) => search(Engine, q, o) = EmptyPage

\* The last document has just been removed, and the trie still completes a
\* query to terms the ranker is asked about.
C15_Witness ==
    /\ lastOp = "removeDocument"
    /\ DOMAIN corpus = {}
    /\ \E q \in Queries :
          /\ tokenize(q, TRUE, TRUE) = <<>>
          /\ searchQueryTerms(Engine, q, DefaultOptions) # <<>>
          /\ search(Engine, q, DefaultOptions) = EmptyPage

Count(seq, v) == Cardinality({ i \in 1..Len(seq) : seq[i] = v })

Min(a, b) == IF a < b THEN a ELSE b

\* C16: what topK returns is non-decreasing under the comparator, has
\* min(k, |items|) items (none when k <= 0), holds no item more often than
\* the input does, and no item left behind is better than one returned.
C16_TopKIsKBest ==
    sel.pc = "returned" =>
        LET r      == sel.result
            better(a, b) == applyComparator(sel.comparator, a, b) < 0
        IN  /\ \A i, j \in 1..Len(r) : i < j => ~better(r[j], r[i])
            /\ Len(r) = IF sel.k <= 0 THEN 0 ELSE Min(sel.k, Len(sel.items))
            /\ \A v \in SelValues : Count(r, v) <= Count(sel.items, v)
            /\ \A v \in SelValues :
                  Count(r, v) < Count(sel.items, v) =>
                      \A i \in 1..Len(r) : ~better(v, r[i])
            /\ sel.k >= Len(sel.items) =>
                  \A v \in SelValues : Count(r, v) = Count(sel.items, v)

\* A call that had to leave items behind, under the comparator with ties,
\* whose result holds one value twice and two tied values.
C16_Witness ==
    /\ sel.pc = "returned"
    /\ sel.comparator = "byTens"
    /\ Len(sel.result) = 3 /\ Len(sel.items) = 4
    /\ \E v \in SelValues : Count(sel.result, v) = 2
    /\ \E i, j \in 1..Len(sel.result) :
          /\ sel.result[i] # sel.result[j]
          /\ applyComparator("byTens", sel.result[i], sel.result[j]) = 0

\* C17: complete(p, k) returns at most k items, each a term that starts with
\* p and is a live terminal, given with the weight of its node, and lists
\* them by weight descending, then term ascending.
C17_CompleteWellFormed ==
    \A p \in TrieTerms \cup {UnknownDocId}, k \in 0..MaxComplete :
        LET out == trieComplete(trie, p, k)
        IN  /\ Len(out) <= k
            /\ \A i \in 1..Len(out) :
                  /\ IsPrefix(p, out[i].term)
                  /\ trieHas(trie, out[i].term)
                  /\ out[i].weight = trie[out[i].term].weight
            /\ \A i, j \in 1..Len(out) :
                  i < j => \/ out[i].weight > out[j].weight
                           \/ /\ out[i].weight = out[j].weight
                              /\ StrLess(out[i].term, out[j].term)

\* A trie with a removed one-letter term, whose completion of "" is cut at
\* the limit and lists a heavier term before a lighter one that is the
\* smaller string.
C17_Witness ==
    /\ \E t \in TrieTerms :
          Len(t) = 1 /\ t \in DOMAIN trie /\ ~trie[t].terminal /\ trieLog[t].inserts = 0
    /\ \E k \in 0..MaxComplete :
          LET out == trieComplete(trie, <<>>, k)
          IN  /\ Len(out) = k /\ k >= 2
              /\ out[1].weight > out[2].weight
              /\ StrLess(out[2].term, out[1].term)

TrieWeight(term) == IF term \in DOMAIN trie THEN trie[term].weight ELSE 0

\* C18: the weight of a term's terminal node is the number of insert calls
\* for the term since its last remove.
C18_WeightCountsInserts ==
    \A t \in TrieTerms : TrieWeight(t) = trieLog[t].inserts

\* C18, amended: the weight of a term's terminal node is the number of
\* insert calls with trackFrequency for the term since its last remove.
C18_WeightCountsTrackedInserts ==
    \A t \in TrieTerms : TrieWeight(t) = trieLog[t].tracked

\* A term inserted twice since its last remove, once with trackFrequency,
\* next to a term that was inserted and then removed.
C18_Witness ==
    /\ \E t \in TrieTerms :
          trieLog[t].inserts = 2 /\ trieLog[t].tracked = 1 /\ TrieWeight(t) = 1
    /\ \E t \in TrieTerms :
          t \in DOMAIN trie /\ t # <<>> /\ trieLog[t].inserts = 0 /\ ~trieHas(trie, t)
                            /\ Len(t) = 2

RECURSIVE SumOf(_)
SumOf(f) ==
    IF DOMAIN f = {} THEN 0
    ELSE LET d == CHOOSE x \in DOMAIN f : TRUE
         IN  f[d] + SumOf([x \in DOMAIN f \ {d} |-> f[x]])

\* the occurrences of a term in a text, as the tokenizer of upsertDocuments sees it
Occurrences(term, text) ==
    LET toks == tokenize(text, TRUE, FALSE)
    IN  Cardinality({ i \in 1..Len(toks) : toks[i].term = term })

\* C19: the trie weight of every term is the number of its occurrences in
\* the texts of the documents upserted and not removed since.
C19_WeightIsCorpusFrequency ==
    \A t \in Terms :
        TrieWeight(t) = SumOf([d \in DOMAIN corpus |-> Occurrences(t, corpus[d])])

\* "the", "The IS": queries of stop words only
StopWordQueries == { <<116, 104, 101>>, <<84, 104, 101, 32, 73, 83>> }

\* C20: every stop word of a current text has a posting for its document,
\* yet with enablePrefix = false a query of stop words only gives the ranker
\* no term and returns no hit.
C20_StopWordsIndexedNotQueried ==
    /\ \A t \in Terms \cap DEFAULT_STOP_WORDS, d \in DOMAIN corpus :
          Occurrences(t, corpus[d]) > 0 => d \in PostingDocIds(getPostings(index, t))
    /\ \A q \in StopWordQueries, o \in { x \in SearchOptions : ~x.enablePrefix } :
          /\ searchQueryTerms(Engine, q, o) = <<>>
          /\ search(Engine, q, o) = EmptyPage

\* A current document holds the stop word "the", the index has its posting
\* with that document, and the query "the" with enablePrefix = false returns
\* nothing while the same query with completion returns the document.
C20_Witness ==
    \E d \in DOMAIN corpus :
        /\ Occurrences(<<116, 104, 101>>, corpus[d]) > 0
        /\ d \in PostingDocIds(getPostings(index, <<116, 104, 101>>))
        /\ search(Engine, <<116, 104, 101>>, [DefaultOptions EXCEPT !.enablePrefix = FALSE])
               = EmptyPage
        /\ d \in HitDocIds(search(Engine, <<116, 104, 101>>, DefaultOptions))

\* The terms of a sequence of query terms
TermSet(terms) == { terms[i] : i \in 1..Len(terms) }

\* The options whose ranked list is not pruned by candidateLimit
UnprunedOptions == { o \in RankingOptions : o.candidateLimit = 0 }

\* The query terms are the query's tokens followed, when completion applies
\* (enablePrefix and a last fragment of at least 2 characters), by the terms
\* of trie.complete(lowercased fragment, prefixLimit), and by nothing else
\* when it does not
QueryTermsAreTokensAndCompletions ==
    \A q \in Queries, o \in UnprunedOptions :
        LET toks  == tokenize(q, TRUE, TRUE)
            comps == trieComplete(trie, toLowerCase(lastFragment(q)), o.prefixLimit)
        IN  searchQueryTerms(Engine, q, o)
              = [i \in 1..Len(toks) |-> toks[i].term]
                  \o (IF o.enablePrefix /\ Len(lastFragment(q)) >= 2
                      THEN [i \in 1..Len(comps) |-> comps[i].term]
                      ELSE <<>>)

\* Every current document whose text holds a query term or a completion is
\* in the result set
HoldersAreReturned ==
    \A q \in Queries, o \in UnprunedOptions :
        LET found == HitDocIds([hits |-> searchAllHits(Engine, q, o)])
            terms == TermSet(searchQueryTerms(Engine, q, o))
        IN  \A d \in DOMAIN corpus :
                TextTerms(corpus[d]) \cap terms # {} => d \in found

\* Every document of the result set holds a query term or a completion in
\* its current text
OnlyHoldersAreReturned ==
    \A q \in Queries, o \in UnprunedOptions :
        LET found == HitDocIds([hits |-> searchAllHits(Engine, q, o)])
            terms == TermSet(searchQueryTerms(Engine, q, o))
        IN  \A d \in found :
                d \in DOMAIN corpus /\ TextTerms(corpus[d]) \cap terms # {}

\* C21: with enablePrefix and a last fragment of length >= 2 search appends
\* the terms of trie.complete(lowercased fragment, prefixLimit) to the query
\* terms and otherwise does not consult the trie; every document holding a
\* query term or a completion is in the result set, and a document holding
\* none of them is not.
C21_PrefixCompletionsDecideResultSet ==
    /\ QueryTermsAreTokensAndCompletions
    /\ HoldersAreReturned
    /\ OnlyHoldersAreReturned

\* The Map `scores` of a rank call when the union scoring is done, before
\* the prune and the normalization: its entries [docId, score] in insertion
\* order
candidateScores(queryTerms, ctx) ==
    IF ctx.stats.docCount = 0 \/ queryTerms = <<>> THEN <<>>
    ELSE unionScore(<<>>, sortTermLists(gatherTermLists(queryTerms, ctx.index,
                                                        ctx.stats.docCount)))

\* rank with candidateLimit returns at most candidateLimit hits, all of them
\* candidates, and when there are more candidates than that it returns
\* candidateLimit of them, none with a lower un-normalized score than a
\* candidate it leaves out
PrunesToBest(ctx, candidateLimit) ==
    \A q \in RankQueries :
        LET all  == candidateScores(q, ctx)
            hits == rank(q, ctx, candidateLimit)
            kept == { hits[i].docId : i \in 1..Len(hits) }
        IN  /\ Len(hits) <= candidateLimit
            /\ kept \subseteq { all[i].docId : i \in 1..Len(all) }
            /\ Len(all) > candidateLimit =>
                  /\ Len(hits) = candidateLimit
                  /\ \A i, j \in 1..Len(all) :
                        all[i].docId \in kept /\ all[j].docId \notin kept
                            => all[i].score >= all[j].score

PostingsOf(ix, term) ==
    IF getPostings(ix, term).present
    THEN { getPostings(ix, term).postings[i] : i \in 1..getPostings(ix, term).df }
    ELSE {}

\* Two indexes hold the same logical content: the same document set and the
\* same postings for every term
SameContent(ixA, ixB) ==
    /\ ixA.docs = ixB.docs
    /\ \A t \in {<<112>>, <<113>>, <<122>>} : PostingsOf(ixA, t) = PostingsOf(ixB, t)

\* C23: rank calls with the same query terms and the same candidateLimit on
\* two indexes that hold the same document set, postings and document
\* lengths return the same list of hits, whatever the order the documents
\* were added and removed in, also when candidateLimit prunes tied
\* candidates.
C23_RankerDeterministic ==
    rk.pc = "ranking" /\ SameContent(rk.a, rk.b) =>
        \A q \in RankQueries, k \in 0..MaxCandidateLimit :
            rank(q, RankContext(rk.a), k) = rank(q, RankContext(rk.b), k)

\* The two indexes hold the same content with "a" and "b" added in opposite
\* orders, the two are tied among the three candidates of the query "q p",
\* and candidateLimit 2 prunes one of the tied.
C23_Witness ==
    /\ rk.pc = "ranking"
    /\ SameContent(rk.a, rk.b)
    /\ <<112>> \in DOMAIN rk.a.termToDocMap
    /\ <<112>> \in DOMAIN rk.b.termToDocMap
    /\ \E i, j \in 1..Len(rk.a.termToDocMap[<<112>>]) :
          /\ i < j
          /\ rk.a.termToDocMap[<<112>>][i].docId = <<97>>
          /\ rk.a.termToDocMap[<<112>>][j].docId = <<98>>
    /\ \E i, j \in 1..Len(rk.b.termToDocMap[<<112>>]) :
          /\ i < j
          /\ rk.b.termToDocMap[<<112>>][i].docId = <<98>>
          /\ rk.b.termToDocMap[<<112>>][j].docId = <<97>>
    /\ LET all == candidateScores(<< <<113>>, <<112>> >>, RankContext(rk.a))
       IN  /\ Len(all) = 3
           /\ \E i, j \in 1..3 : i # j /\ all[i].score = all[j].score
                                  /\ \A h \in 1..3 : all[h].score >= all[i].score
    /\ Len(rank(<< <<113>>, <<112>> >>, RankContext(rk.a), 2)) = 2

\* The 1-based indexes at which an alphanumeric run of the text starts
RunStarts(text) ==
    { i \in 1..Len(text) :
        isAlphaNum(text[i]) /\ (i = 1 \/ ~isAlphaNum(text[i - 1])) }

\* C24: every emitted token starts an alphanumeric run of the text and its
\* position is the number of runs that start before it, so positions are
\* strictly increasing, and with removeStopWords the tokens are those of the
\* unfiltered call that are no stop words, with the same positions.
C24_PositionIsRunIndex ==
    tk.pc = "returned" =>
        /\ \A i \in 1..Len(tk.result) :
              /\ tk.result[i].startOffset + 1 \in RunStarts(tk.text)
              /\ tk.result[i].position
                     = Cardinality({ r \in RunStarts(tk.text) :
                                       r < tk.result[i].startOffset + 1 })
        /\ StrictlyIncreasing([i \in 1..Len(tk.result) |-> tk.result[i].position])
        /\ tk.removeStopWords =>
              tk.result = SelectSeq(tokenize(tk.text, tk.normalizeCase, FALSE),
                                    LAMBDA tok : tok.term \notin DEFAULT_STOP_WORDS)
        /\ ~tk.removeStopWords => Len(tk.result) = Cardinality(RunStarts(tk.text))

\* A call with removeStopWords on a text whose first run is a stop word and
\* whose second is not: the first emitted token has position 1.
C24_Witness ==
    /\ tk.pc = "returned"
    /\ tk.removeStopWords
    /\ Len(tk.result) >= 1
    /\ tk.result[1].position = 1
    /\ Len(tokenize(tk.text, tk.normalizeCase, FALSE)) > Len(tk.result)

\* Array.prototype.join(" ") of the terms of a token list
RECURSIVE JoinTerms(_)
JoinTerms(tokens) ==
    IF tokens = <<>> THEN <<>>
    ELSE IF Len(tokens) = 1 THEN tokens[1].term
    ELSE tokens[1].term \o <<32>> \o JoinTerms(Tail(tokens))

\* The text with its letters A-Z turned to a-z
Lowercased(text) ==
    [i \in 1..Len(text) |->
        IF text[i] \in 65..90 THEN text[i] + 32 ELSE text[i]]

\* A text made only of ASCII alphanumeric words: words of letters and
\* digits, one space between two words and nothing around them
OnlyWords(text) ==
    /\ \A i \in 1..Len(text) : isAlphaNum(text[i]) \/ text[i] = 32
    /\ \A i \in 1..Len(text) :
          text[i] = 32 => /\ i > 1 /\ i < Len(text)
                          /\ text[i - 1] # 32 /\ text[i + 1] # 32

\* No word of a text of words is, lowercased, a stop word
WithoutStopWords(text) ==
    \A i \in RunStarts(text) : \A j \in i..Len(text) :
        (j = Len(text) \/ text[j + 1] = 32) /\ (\A h \in i..j : text[h] # 32)
            => Lowercased(SubSeq(text, i, j)) \notin DEFAULT_STOP_WORDS

\* C25: for a text made only of ASCII alphanumeric words, none of them a
\* stop word, tokenized with normalizeCase = true, the emitted terms joined
\* by a single space are the lowercased text.
C25_JoinedTermsAreLowercasedText ==
    tk.pc = "returned" /\ tk.normalizeCase /\ OnlyWords(tk.text)
                       /\ WithoutStopWords(tk.text)
        => JoinTerms(tk.result) = Lowercased(tk.text)

\* A text of two words with an uppercase letter and no stop word, tokenized
\* with normalizeCase and removeStopWords.
C25_Witness ==
    /\ tk.pc = "returned"
    /\ tk.normalizeCase
    /\ tk.removeStopWords
    /\ OnlyWords(tk.text)
    /\ WithoutStopWords(tk.text)
    /\ Len(tk.result) = 2
    /\ \E i \in 1..Len(tk.text) : tk.text[i] = 78

\* C26: removeDocument of an id that is not in the registry changes nothing:
\* the registry, the document lengths, the index's document set, every
\* postings list and the trie are what they were.
C26_RemoveAbsentIsNoOp ==
    \A d \in DocIds \cup {UnknownDocId} :
        d \notin DOMAIN docs =>
            LET e == removeDocument(Engine, d)
            IN  /\ e.docs = docs
                /\ e.docLengths = docLengths
                /\ e.index.docs = index.docs
                /\ e.index.termToDocMap = index.termToDocMap
                /\ \A t \in Terms : getPostings(e.index, t) = getPostings(index, t)
                /\ e.trie = trie

\* A removeDocument has left one id absent and another document with its
\* postings in the engine, and removing the absent id once more gives the
\* same engine.
C26_Witness ==
    /\ lastOp = "removeDocument"
    /\ \E d \in removed :
          /\ d \notin DOMAIN docs
          /\ DOMAIN docs # {}
          /\ \E t \in Terms : getPostings(index, t).present /\ getPostings(index, t).df > 0
          /\ removeDocument(Engine, d) = Engine

\* The last request was a POST /documents that got past the checks of the
\* whole request, so that its items were gone through
Ingesting ==
    /\ http.pc = "responded"
    /\ http.request.method = "POST"
    /\ http.request.path = "/documents"
    /\ http.response.status \in {200, 207}

RequestItems == field(http.request.body.value, "documents").items

\* An item that is a document with a valid id and text
ValidItem(d) ==
    /\ d.type = "object"
    /\ field(d, "id").type = "string"
    /\ Len(field(d, "id").value) \in 1..MaxIdLength
    /\ field(d, "text").type = "string"
    /\ Len(field(d, "text").value) \in 1..MaxTextLength

\* The id of item i is already present when the loop comes to it: from an
\* earlier request, or from a valid item before it in the batch
AlreadyPresent(i) ==
    \/ field(RequestItems[i], "id").value \in DOMAIN http.before.docs
    \/ \E j \in 1..(i - 1) :
          /\ ValidItem(RequestItems[j])
          /\ field(RequestItems[j], "id").value = field(RequestItems[i], "id").value

\* Item i was passed to engine.upsert
Upserted(i) ==
    \E u \in 1..Len(http.upserts) :
        /\ http.upserts[u].index = i - 1
        /\ http.upserts[u].id = field(RequestItems[i], "id").value
        /\ http.upserts[u].text = field(RequestItems[i], "text").value

\* Item i is listed in the failures of the response
Failed(i) ==
    \E f \in 1..Len(http.response.body.failures) :
        http.response.body.failures[f].index = i - 1

\* The postings of one document in the index of an engine
PostingsOfDoc(e, id) ==
    [t \in Terms |->
        { p \in PostingsOf(e.index, t) : p.docId = id }]

\* C27: in POST /documents with onDuplicate "skip" a valid document whose id
\* is already present, from an earlier request or from earlier in the batch,
\* is not passed to the engine and is counted neither in ingested nor in
\* failures, and the documents stored before the request keep their text,
\* length and postings; with "replace" every valid document is upserted and
\* counted as ingested.
C27_SkipLeavesDuplicates ==
    Ingesting =>
        LET valid == { i \in 1..Len(RequestItems) : ValidItem(RequestItems[i]) }
            duplicates == { i \in valid : AlreadyPresent(i) }
        IN  IF onDuplicateOf(http.request.body.value) = "skip"
            THEN /\ \A i \in duplicates : ~Upserted(i) /\ ~Failed(i)
                 /\ \A i \in valid \ duplicates : Upserted(i)
                 /\ http.response.body.ingested = Cardinality(valid \ duplicates)
                 /\ Len(http.upserts) = Cardinality(valid \ duplicates)
                 /\ \A id \in DOMAIN http.before.docs :
                       /\ http.docs[id] = http.before.docs[id]
                       /\ docs[id] = http.before.e.docs[id]
                       /\ docLengths[id] = http.before.e.docLengths[id]
                       /\ PostingsOfDoc(Engine, id) = PostingsOfDoc(http.before.e, id)
                 /\ valid \subseteq duplicates => Engine = http.before.e
            ELSE /\ \A i \in valid : Upserted(i) /\ ~Failed(i)
                 /\ http.response.body.ingested = Cardinality(valid)
                 /\ Len(http.upserts) = Cardinality(valid)
                 /\ \A i \in valid :
                       (\A j \in valid : j > i =>
                            field(RequestItems[j], "id").value
                                # field(RequestItems[i], "id").value)
                         => docs[field(RequestItems[i], "id").value].text
                                = field(RequestItems[i], "text").value

\* A "skip" request whose first item is "a" with the text "the" while "a" is
\* stored with "yy" from an earlier request, and whose second item is new:
\* one document is ingested, none failed, and "a" still has the text "yy".
C27_Witness ==
    /\ Ingesting
    /\ onDuplicateOf(http.request.body.value) = "skip"
    /\ Len(RequestItems) = 2
    /\ <<97>> \in DOMAIN http.before.docs
    /\ http.before.docs[<<97>>] = <<121, 121>>
    /\ RequestItems[1] = HttpDocument(<<97>>, <<116, 104, 101>>)
    /\ ValidItem(RequestItems[2])
    /\ http.response.body.ingested = 1
    /\ http.response.body.failed = 0
    /\ docs[<<97>>].text = <<121, 121>>

\* The response of the last request reports a validation error: it is a
\* problem with the code INVALID_ARGUMENT, or it lists a failure of an item
ReportsValidationError ==
    \/ http.response.code = "INVALID_ARGUMENT"
    \/ /\ http.response.code = "OK"
       /\ http.request.path = "/documents"
       /\ http.request.method = "POST"
       /\ http.response.body.failed > 0

ValidSearchBody(body) ==
    /\ body.type = "object"
    /\ field(body, "query").type = "string"
    /\ Len(field(body, "query").value) \in 1..MaxQueryLength
    /\ field(body, "topK").type = "number" /\ field(body, "topK").integer
          => field(body, "topK").value \in 1..MaxTopK
    /\ field(body, "mode").type = "string"
          => field(body, "mode").value \in {"fulltext", "prefix"}
    /\ field(body, "page").type = "object"
       /\ field(field(body, "page"), "cursor").type \notin {"undefined", "null"}
          => /\ field(field(body, "page"), "cursor").type = "string"
             /\ \E d \in DocIds \cup {<<97>>, <<98>>} :
                   field(field(body, "page"), "cursor").value
                       = encodeCursor(base64Encode(utf8Encode(d)))

\* A POST /documents body whose documents and options are valid
ValidDocumentsBody(body) ==
    /\ body.type = "object"
    /\ field(body, "documents").type = "array"
    /\ Len(field(body, "documents").items) \in 1..MaxDocuments
    /\ field(body, "options").type = "object"
       /\ field(field(body, "options"), "onDuplicate").type = "string"
          => field(field(body, "options"), "onDuplicate").value \in {"replace", "skip"}

Posted ==
    /\ http.pc = "responded"
    /\ http.request.method = "POST"
    /\ http.request.path \in {"/documents", "/search"}

\* The last request's body is JSON whose fields fail the validation of the
\* request as a whole
InvalidFields ==
    /\ http.request.body.raw = "json"
    /\ http.request.body.value.type = "object"
    /\ IF http.request.path = "/search"
       THEN ~ValidSearchBody(http.request.body.value)
       ELSE ~ValidDocumentsBody(http.request.body.value)

\* C29: a POST with a wrong content type, a body that is no valid JSON, a
\* body that is no object or invalid fields is answered with a 4xx problem,
\* and no request is answered with 500 INTERNAL, the engine raising no
\* exception.
C29_FailuresAre4xx ==
    /\ http.pc = "responded" => http.response.status # 500
    /\ Posted =>
          /\ http.request.contentType \notin
                 {"application/json", "Application/JSON ; charset=utf-8"}
                => http.response.status = 415
          /\ \/ http.request.body.raw \in {"empty", "malformed"}
             \/ http.request.body.raw = "json" /\ http.request.body.value.type # "object"
             \/ InvalidFields
                => /\ http.response.status \in 400..499
                   /\ http.response.code # "OK"

\* C29 without the body that is no valid JSON: the other failures are
\* answered with a 4xx problem
FailuresButMalformedAre4xx ==
    Posted /\ http.request.body.raw # "malformed" =>
        /\ http.response.status # 500
        /\ http.request.contentType \notin
               {"application/json", "Application/JSON ; charset=utf-8"}
              => http.response.status = 415
        /\ \/ http.request.body.raw = "empty"
           \/ http.request.body.raw = "json" /\ http.request.body.value.type # "object"
           \/ InvalidFields
              => /\ http.response.status \in 400..499
                 /\ http.response.code # "OK"

\* A new engine into which the documents of an id -> text function are
\* upserted once each, in the order of their ids
RECURSIVE EngineOf(_)
EngineOf(put) ==
    IF DOMAIN put = {} THEN NewEngine
    ELSE LET last == CHOOSE d \in DOMAIN put :
                         \A x \in DOMAIN put : x = d \/ StrLess(x, d)
         IN  upsertDocument(EngineOf([x \in DOMAIN put \ {last} |-> put[x]]),
                            [id |-> last, text |-> put[last]])

\* The options of the fulltext searches
FulltextOptions == { o \in SearchOptions : ~o.enablePrefix }

\* C30: the engine returns for every fulltext query and options the page
\* that an engine with the same current documents and no other history
\* returns; a document re-upserted with a new text is not returned for a
\* term of its old text only.
C30_HitsDependOnCurrentDocuments ==
    \A q \in Queries, o \in FulltextOptions :
        search(Engine, q, o) = search(EngineOf(corpus), q, o)

\* The same where no document has been re-upserted with another text: the
\* postings of every current document are those of its current text
HitsOfUnreplacedDocuments ==
    C2_AddDocumentReplaces => C30_HitsDependOnCurrentDocuments

\* tf times idf of the posting a document has for a term, 0 when it has none
TermScore(ix, term, d) ==
    LET held == { p \in PostingsOf(ix, term) : p.docId = d }
    IN  IF held = {} THEN 0
        ELSE (CHOOSE p \in held : TRUE).tf
                 * idf(getStats(ix).docCount, Cardinality(PostingsOf(ix, term)), 1)

\* The sum of TermScore over the occurrences of the terms in the query
RECURSIVE QueryScore(_, _, _)
QueryScore(ix, queryTerms, d) ==
    IF queryTerms = <<>> THEN 0
    ELSE TermScore(ix, Head(queryTerms), d) + QueryScore(ix, Tail(queryTerms), d)

\* C31: without candidateLimit the docIds rank returns are the union of the
\* docIds in the postings of the query terms, each once, and the score of
\* each before the normalization is the sum, over the occurrences of the
\* terms in the query, of tf times the term's idf; a term that is not in the
\* index adds nothing.
C31_UnionScoring ==
    rk.pc = "ranking" =>
        \A q \in RankQueries :
            LET hits == rank(q, RankContext(rk.a), 0)
            IN  /\ { hits[i].docId : i \in 1..Len(hits) }
                      = UNION { { p.docId : p \in PostingsOf(rk.a, q[i]) } :
                                  i \in 1..Len(q) }
                /\ \A i, j \in 1..Len(hits) : hits[i].docId = hits[j].docId => i = j
                /\ \A i \in 1..Len(hits) :
                      hits[i].score.num = QueryScore(rk.a, q, hits[i].docId)

\* The index holds "a", "b" and "c"; the query "p p" gives "c", which holds
\* p twice, four times the idf of p, and the query "p z" gives the three
\* documents the scores of the query "p".
C31_Witness ==
    /\ rk.pc = "ranking"
    /\ rk.a.docs = { <<97>>, <<98>>, <<99>> }
    /\ \E h \in 1..3 :
          LET hit == rank(<< <<112>>, <<112>> >>, RankContext(rk.a), 0)[h]
          IN  hit.docId = <<99>> /\ hit.score.num = 4 * idf(3, 3, 1)
    /\ rank(<< <<112>>, <<122>> >>, RankContext(rk.a), 0)
           = rank(<< <<112>> >>, RankContext(rk.a), 0)

\* Every completion of a prefix, the limit being larger than the number of
\* terms
AllCompletions(t, prefix) == trieComplete(t, prefix, Cardinality(TrieTerms) + 1)

\* C32: after remove(t) has(t) is false, no complete returns t, and the next
\* insert of t gives it the weight 1; has, the weight and the completions of
\* every other term, those that extend t or begin it included, are what
\* they were; remove of a term without a path leaves the trie as it is.
C32_RemoveUnsetsOnlyTheTerm ==
    \A t \in TrieTerms \cup {UnknownDocId} :
        \E after \in { trieRemove(trie, t) } :
            /\ ~trieHas(after, t)
            /\ \A p \in TrieTerms, k \in 0..MaxComplete :
                  \E out \in { trieComplete(after, p, k) } :
                      \A i \in 1..Len(out) : out[i].term # t
            /\ trieInsert(after, t, TRUE)[t].weight = 1
            /\ DOMAIN after = DOMAIN trie
            /\ \A u \in (TrieTerms \cup {UnknownDocId}) \ {t} :
                  /\ trieHas(after, u) = trieHas(trie, u)
                  /\ u \in DOMAIN trie => after[u] = trie[u]
            /\ \A p \in TrieTerms :
                  AllCompletions(after, p)
                      = SelectSeq(AllCompletions(trie, p), LAMBDA c : c.term # t)
            /\ t \notin DOMAIN trie => after = trie

\* The term "a" has been removed and its node remains, while "" and "ab",
\* which begin and extend it, are live with their weights, and "z" has no
\* path.
C32_Witness ==
    /\ lastOp = "remove"
    /\ <<97>> \in DOMAIN trie
    /\ ~trieHas(trie, <<97>>)
    /\ trieLog[<<97>>].inserts = 0
    /\ trieHas(trie, <<>>)
    /\ trieHas(trie, <<97, 98>>)
    /\ trie[<<97, 98>>].weight > 0
    /\ UnknownDocId \notin DOMAIN trie
    /\ Len(AllCompletions(trie, <<97>>)) = 1

\* The terms of TrieTerms in ascending order.
SortedTerms == << <<>>, <<97>>, <<97, 98>>, <<98>> >>

\* The trie built from an empty one by the inserts that a log counts, taken
\* term by term in ascending order: for every term first its inserts with
\* trackFrequency, then those without.
RECURSIVE InsertTimes(_, _, _, _)
InsertTimes(t, term, trackFrequency, n) ==
    IF n = 0 THEN t
    ELSE InsertTimes(trieInsert(t, term, trackFrequency), term, trackFrequency, n - 1)

RECURSIVE BuiltInOrder(_, _, _)
BuiltInOrder(t, log, i) ==
    IF i > Len(SortedTerms) THEN t
    ELSE LET term == SortedTerms[i]
         IN  BuiltInOrder(
                 InsertTimes(InsertTimes(t, term, TRUE, log[term].tracked),
                             term, FALSE, log[term].inserts - log[term].tracked),
                 log, i + 1)

\* C33: complete(prefix, limit) depends on the inserts, not on their order:
\* for every prefix and limit the trie answers as the trie built from the
\* same inserts in ascending order of the terms does.
C33_CompleteIgnoresInsertOrder ==
    \E inOrder \in { BuiltInOrder(EmptyTrie, trieLog, 1) } :
        \A p \in TrieTerms \cup {UnknownDocId}, k \in 0..MaxComplete :
            trieComplete(trie, p, k) = trieComplete(inOrder, p, k)

\* "b" was inserted before "a" and nothing was removed, so the root's
\* children are kept in descending order; a completion cut at one item
\* returns "a".
C33_Witness ==
    /\ trie[<<>>].children = <<98, 97>>
    /\ \A t \in DOMAIN trie : t # <<>> => trieLog[t].inserts > 0
    /\ trie # BuiltInOrder(EmptyTrie, trieLog, 1)
    /\ ~trieHas(trie, <<>>)
    /\ trieComplete(trie, <<>>, 1) = << [term |-> <<97>>, weight |-> trie[<<97>>].weight] >>

\* The terms of the current text of document d that the current text of no
\* other document holds
OwnTerms(d) ==
    { t \in Terms : /\ Occurrences(t, corpus[d]) > 0
                    /\ \A x \in DOMAIN corpus \ {d} : Occurrences(t, corpus[x]) = 0 }

\* removeDocument(d) leaves the trie as it is, so that has and complete
\* still give every term of OwnTerms(d), with the weight it had
RemoveKeepsTrie(d) ==
    LET e == removeDocument(Engine, d)
    IN  /\ e.trie = trie
        /\ \A t \in OwnTerms(d) :
              /\ trieHas(e.trie, t)
              /\ trie[t].weight > 0
              /\ \A k \in 1..MaxComplete :
                    \E i \in 1..Len(trieComplete(e.trie, t, k)) :
                        trieComplete(e.trie, t, k)[i]
                            = [term |-> t, weight |-> trie[t].weight]

\* After removeDocument(d) a search for a term of OwnTerms(d) has no hits
RemovedTermHasNoHits(d) ==
    LET e == removeDocument(Engine, d)
    IN  \A t \in OwnTerms(d) : \A o \in AnyOptions : search(e, t, o).hits = <<>>

\* C34: removeDocument leaves the trie unchanged: after the only document
\* that contains a term is removed, has(term) is still true and complete
\* still returns the term with its old weight, while a search for the term
\* returns no hits.
C34_RemoveKeepsTrieDropsHits ==
    \A d \in DOMAIN corpus : RemoveKeepsTrie(d) /\ RemovedTermHasNoHits(d)

\* The trie part of C34 holds in every state
C34_RemoveKeepsTrie ==
    \A d \in DOMAIN corpus : RemoveKeepsTrie(d)

\* The search part of C34 holds where no document has been re-upserted with
\* another text
C34_NoHitsOfUnreplacedDocuments ==
    C2_AddDocumentReplaces => \A d \in DOMAIN corpus : RemovedTermHasNoHits(d)

\* Two documents, one of them alone in holding the stop word "the", and no
\* document re-upserted: after the removal of that document the trie still
\* completes "the" and the search for "the" is empty.
C34_RemoveKeepsTrie_Witness ==
    /\ C2_AddDocumentReplaces
    /\ Cardinality(DOMAIN corpus) = 2
    /\ \E d \in DOMAIN corpus :
          /\ <<116, 104, 101>> \in OwnTerms(d)
          /\ trieComplete(removeDocument(Engine, d).trie, <<116, 104>>, 5) # <<>>
          /\ search(Engine, <<116, 104, 101>>, DefaultOptions).hits # <<>>
          /\ search(removeDocument(Engine, d), <<116, 104, 101>>, DefaultOptions).hits = <<>>

\* The live terms under a prefix: the terminal nodes whose path starts with it
LiveUnder(prefix) == { t \in DOMAIN trie : IsPrefix(prefix, t) /\ trie[t].terminal }

\* The n smallest strings of a set
Smallest(terms, n) ==
    { t \in terms : Cardinality({ u \in terms : StrLess(u, t) }) < n }

\* C35: when more than limit live terms share the prefix, complete returns
\* the limit lexicographically smallest of them, ordered by weight
\* descending, then term ascending; a heavier term that is not among the
\* limit smallest is not returned.
C35_CompleteCutsInTermOrder ==
    \A p \in TrieTerms \cup {UnknownDocId}, k \in 0..MaxComplete :
        Cardinality(LiveUnder(p)) > k =>
            LET out == trieComplete(trie, p, k)
            IN  /\ Len(out) = k
                /\ { out[i].term : i \in 1..k } = Smallest(LiveUnder(p), k)
                /\ \A i, j \in 1..k : i < j => completionBefore(out[i], out[j])
                /\ \A t \in LiveUnder(p) \ Smallest(LiveUnder(p), k) :
                      \A i \in 1..k : out[i].term # t

\* The four terms are live, "b" is heavier than every other term, and the
\* completion of "" cut at two items returns "a" before "", without "b".
C35_Witness ==
    /\ LiveUnder(<<>>) = TrieTerms
    /\ \A t \in TrieTerms \ {<<98>>} : trie[<<98>>].weight > trie[t].weight
    /\ trie[<<97>>].weight > trie[<<>>].weight
    /\ LET out == trieComplete(trie, <<>>, 2)
       IN  /\ out[1].term = <<97>>
           /\ out[2].term = <<>>

\* The page of a search is the slice allHits[start : start + limit] of the
\* ranked list, hit by hit, and has at most limit hits
PageIsSlice(q, o) ==
    LET allHits == searchAllHits(Engine, q, o)
        start   == searchStartIdx(allHits, o.cursor)
        hits    == search(Engine, q, o).hits
    IN  /\ hits = slice(allHits, start, start + o.limit)
        /\ Len(hits) <= o.limit

\* C36: the hits search returns are the slice allHits[start : start + limit]
\* of the ranker's output in the same order, the top-K pass with k = limit
\* dropping, duplicating and reordering nothing, and the page has at most
\* limit hits.
C36_PageIsSlice ==
    \A q \in Queries, o \in AnyOptions : PageIsSlice(q, o)

\* The same for the limits that are not negative
C36_PageIsSliceForNaturalLimit ==
    \A q \in Queries, o \in AnyOptions : o.limit >= 0 => PageIsSlice(q, o)

\* Two documents are ranked for "yy"; the page of limit 1 after the cursor
\* of the first hit is the second hit, the page of limit 10 is both in rank
\* order, and the page of limit 0 is empty.
C36_NaturalLimit_Witness ==
    \E o \in SearchOptions :
        LET allHits == searchAllHits(Engine, <<121, 121>>, o)
        IN  /\ Len(allHits) = 2
            /\ o.limit = 1
            /\ searchStartIdx(allHits, o.cursor) = 1
            /\ search(Engine, <<121, 121>>, o).hits = << allHits[2] >>
            /\ search(Engine, <<121, 121>>, [o EXCEPT !.limit = 10, !.cursor = Absent]).hits
                   = allHits
            /\ search(Engine, <<121, 121>>, [o EXCEPT !.limit = 0]).hits = <<>>

\* ceil(|allHits| / limit) for the pager's query and limit, and 1 for a
\* query without hits, whose only page is the first
SearchBound ==
    LET n == Len(searchAllHits(Engine, pager.query, PagerOptions))
    IN  IF n = 0 THEN 1 ELSE (n + pager.limit - 1) \div pager.limit

\* The pager has searched at most SearchBound times, is done when it has
\* searched that often, and has visited no document twice
PagerWithinBound ==
    /\ pager.searches <= SearchBound
    /\ pager.searches = SearchBound => pager.pc = "done"
    /\ \A i, j \in 1..Len(pager.visited) :
          pager.visited[i].docId = pager.visited[j].docId => i = j

\* C37: pagination terminates: with an unchanged corpus, a fixed query and
\* limit >= 1 the pager reaches a page without nextCursor after at most
\* ceil(|allHits| / limit) searches and never returns to an earlier page.
C37_PagerTerminates ==
    pager.pc # "idle" => PagerWithinBound

\* Every document id is a non-empty string that the UTF-8 encoding gives
\* back
IdsRoundTrip ==
    \A d \in DOMAIN corpus : d # <<>> /\ utf8Decode(utf8Encode(d)) = d

\* The same for the corpora whose ids are non-empty well-formed strings
C37_TerminatesWhereIdsRoundTrip ==
    (pager.pc # "idle" /\ IdsRoundTrip) => PagerWithinBound

\* The documents "a" and "b" were paged through with limit 1 in two searches
C37_RoundTrip_Witness ==
    /\ IdsRoundTrip
    /\ pager.pc = "done"
    /\ pager.limit = 1
    /\ pager.searches = 2
    /\ Len(pager.visited) = 2
    /\ SearchBound = 2

\* C38: after any sequence of upserts and removes the registry, the
\* document-length map and the index's document set have the same keys, and
\* the stored length of every document is the number of tokens, stop words
\* included, of its most recently upserted text.
C38_KeySetsAndLengths ==
    /\ DOMAIN docs = DOMAIN corpus
    /\ DOMAIN docLengths = DOMAIN docs
    /\ index.docs = DOMAIN docs
    /\ \A d \in DOMAIN corpus :
          /\ docs[d].text = corpus[d]
          /\ docLengths[d] = Len(tokenize(corpus[d], TRUE, FALSE))

\* An id was removed and is in none of the three, and the last batch has
\* upserted another document twice, which now has the length of "YY the-yy":
\* three tokens, of which the query tokenizer keeps two.
C38_Witness ==
    /\ lastOp = "upsertDocuments"
    /\ removed # {}
    /\ \A d \in removed : d \notin DOMAIN docs \cup DOMAIN docLengths \cup index.docs
    /\ \E d \in lastShared :
          /\ docLengths[d] = 3
          /\ Len(tokenize(corpus[d], TRUE, TRUE)) = 2

\* The terms of the tokens the query tokenizer gives for a raw query
QueryTokenTerms(q) ==
    LET toks == tokenize(q, TRUE, TRUE) IN { toks[i].term : i \in 1..Len(toks) }

\* The current documents whose text holds a term
Holders(term) == { d \in DOMAIN corpus : Occurrences(term, corpus[d]) > 0 }

\* C39: with enablePrefix = true a query whose last fragment is a stop word
\* of length >= 2 held by a current document gives the ranker that stop
\* word through the trie completion, although the tokenizer has stripped
\* it, and search returns every document that holds it.
C39_StopWordFragmentCompleted ==
    \A q \in Queries, o \in { x \in UnprunedOptions : x.enablePrefix } :
        LET w == toLowerCase(lastFragment(q))
        IN  (w \in DEFAULT_STOP_WORDS /\ Len(w) >= 2 /\ Holders(w) # {}) =>
                /\ w \notin QueryTokenTerms(q)
                /\ w \in TermSet(searchQueryTerms(Engine, q, o))
                /\ Holders(w) \subseteq HitDocIds(search(Engine, q, o))

\* One document holds "the" and another, which was not upserted twice, does
\* not: the query "the" returns the first only, and the query "yy THE",
\* whose tokens are "yy" alone, returns both with "the" among the terms
\* given to the ranker.
C39_Witness ==
    /\ C2_AddDocumentReplaces
    /\ Cardinality(DOMAIN corpus) = 2
    /\ Cardinality(Holders(<<116, 104, 101>>)) = 1
    /\ HitDocIds(search(Engine, <<116, 104, 101>>, DefaultOptions))
           = Holders(<<116, 104, 101>>)
    /\ QueryTokenTerms(<<121, 121, 32, 84, 72, 69>>) = { <<121, 121>> }
    /\ <<116, 104, 101>>
           \in TermSet(searchQueryTerms(Engine, <<121, 121, 32, 84, 72, 69>>, DefaultOptions))
    /\ HitDocIds(search(Engine, <<121, 121, 32, 84, 72, 69>>, DefaultOptions))
           = DOMAIN corpus

\* C40: under concurrent requests the engine calls of a request run in one
\* turn after its body has been read: no request is ever left between two
\* items of its batch, so that no search was answered and no upsert of
\* another batch was made while a batch was partially ingested.
C40_EngineCallsInOneTurn ==
    http.pc = "serving" =>
        \A c \in Connections :
            /\ http.conns[c].pc # "looping"
            /\ http.conns[c].pc = "responded" => http.conns[c].during = {}

\* A search came in while the request of a batch of two documents was
\* waiting for its body; the batch was ingested first, and the search
\* returned both documents.
C40_Witness ==
    /\ http.pc = "serving"
    /\ \E c, s \in Connections :
          /\ http.conns[c].pc = "responded"
          /\ http.conns[c].path = "/documents"
          /\ http.conns[c].upserts = 2
          /\ ~http.conns[c].overlapped
          /\ http.conns[s].pc = "responded"
          /\ http.conns[s].path = "/search"
          /\ http.conns[s].overlapped
          /\ http.conns[s].status = 200
          /\ http.conns[s].hits = 2
====
